---- MODULE Spec2Model ----
(***************************************************************************)
(* Memory-to-register promotion (src/task/4/Mem2Reg.cpp) as a state        *)
(* machine over a small SSA intermediate representation.                   *)
(*                                                                         *)
(* A function is a record                                                  *)
(*   body    : per block, the sequence of its non-terminator instructions  *)
(*   succs   : per block, the ordered successor slots of its terminator    *)
(*   tval    : per block, the value operand of its terminator              *)
(*   allocas : the cells whose alloca instruction is in the entry block    *)
(*   urev    : the order of every use list (program order or its reverse)  *)
(* Blocks are numbered 1..n in function order; block 1 is the entry block. *)
(***************************************************************************)
EXTENDS Integers, Sequences, FiniteSets, TLC

(***************************************************************************)
(* Bounds of the checked input family.                                     *)
(***************************************************************************)
MaxItems == 3
NumCells == 2
MaxPath == 7

Cells == 1..NumCells

(***************************************************************************)
(* Values.                                                                 *)
(***************************************************************************)
Const(n) == [k |-> "const", n |-> n]
InstV(i) == [k |-> "inst", n |-> i]
Addr(c) == [k |-> "addr", n |-> c]
Undef == [k |-> "undef", n |-> 0]
Poison == [k |-> "poison", n |-> 0]
NoVal == [k |-> "none", n |-> 0]

\* isa<Instruction>(V): results of loads, phis and other instructions, and
\* the alloca instructions themselves.
IsInstruction(v) == v.k \in {"inst", "addr"}

(***************************************************************************)
(* Instructions.                                                           *)
(***************************************************************************)
NoName == <<0, 0>>
Load(i, c) ==
  [op |-> "load", id |-> i, ptr |-> Addr(c), val |-> NoVal, inc |-> <<>>, name |-> NoName]
Store(i, v, c) ==
  [op |-> "store", id |-> i, ptr |-> Addr(c), val |-> v, inc |-> <<>>, name |-> NoName]
Op(i, v) ==
  [op |-> "op", id |-> i, ptr |-> NoVal, val |-> v, inc |-> <<>>, name |-> NoName]
Phi(i, inc, name) ==
  [op |-> "phi", id |-> i, ptr |-> NoVal, val |-> NoVal, inc |-> inc, name |-> name]

Entry == 1

BlocksOf(F) == 1..Len(F.succs)

RECURSIVE Concat(_, _)
Concat(ss, n) == IF n = 0 THEN <<>> ELSE Concat(ss, n - 1) \o ss[n]

\* Every instruction of the function, in program order.
AllInsts(F) == Concat(F.body, Len(F.body))

Reverse(s) == [k \in 1..Len(s) |-> s[Len(s) + 1 - k]]

HasInst(F, i) == \E b \in BlocksOf(F) : \E k \in 1..Len(F.body[b]) : F.body[b][k].id = i
BlockOf(F, i) == CHOOSE b \in BlocksOf(F) : \E k \in 1..Len(F.body[b]) : F.body[b][k].id = i

\* The index of instruction i in the instruction list body.
IndexIn(body, i) == CHOOSE k \in 1..Len(body) : body[k].id = i

\* The index of instruction i in its block.
PosOf(G, i) == IndexIn(G.body[BlockOf(G, i)], i)

GetInst(F, i) == F.body[BlockOf(F, i)][PosOf(F, i)]

InstUses(I, v) ==
  \/ I.ptr = v
  \/ I.val = v
  \/ \E k \in 1..Len(I.inc) : I.inc[k].v = v

\* AI->users(): the instructions using the alloca, in use-list order.
UsersInOrder(us, urev) == IF urev THEN Reverse(us) ELSE us

Users(F, c) == UsersInOrder(SelectSeq(AllInsts(F), LAMBDA I : InstUses(I, Addr(c))), F.urev)

SubstV(v, old, new) == IF v = old THEN new ELSE v

SubstInst(I, old, new) ==
  [I EXCEPT !.ptr = SubstV(@, old, new),
            !.val = SubstV(@, old, new),
            !.inc = [k \in 1..Len(@) |-> [v |-> SubstV(@[k].v, old, new), b |-> @[k].b]]]

\* Value::replaceAllUsesWith
RAUW(F, old, new) ==
  [F EXCEPT !.body = [b \in 1..Len(@) |->
                        [k \in 1..Len(@[b]) |-> SubstInst(@[b][k], old, new)]],
            !.tval = [b \in 1..Len(@) |-> SubstV(@[b], old, new)]]

\* An erasure that takes every instruction of the block up to i with it.
EraseUpTo(F, i) ==
  [F EXCEPT !.body[BlockOf(F, i)] = SubSeq(@, PosOf(F, i) + 1, Len(@))]

\* Instruction::eraseFromParent
EraseInst(F, i) ==
  [F EXCEPT !.body = [b \in 1..Len(@) |-> SelectSeq(@[b], LAMBDA I : I.id # i)]]

EraseAllocaKept(F, c) == F

EraseAlloca(F, c) == [F EXCEPT !.allocas = @ \ {c}]

(***************************************************************************)
(* Control-flow graph and dominator tree.                                  *)
(***************************************************************************)
SuccSet(succs, b) == {succs[b][k] : k \in 1..Len(succs[b])}

\* A count that takes a predecessor once however many of its slots target BB.
CountOnce(succs, p, b) == IF \E k \in 1..Len(succs[p]) : succs[p][k] = b THEN 1 ELSE 0

\* llvm::count(successors(Pred), BB)
CountEdges(succs, p, b) == Cardinality({k \in 1..Len(succs[p]) : succs[p][k] = b})

\* pred_size(BB): one per successor slot that targets BB.
PredSize(succs, b) ==
  Cardinality({e \in (1..Len(succs)) \X (1..Len(succs)) :
                 e[2] <= Len(succs[e[1]]) /\ succs[e[1]][e[2]] = b})

RECURSIVE Closure(_, _, _)
Closure(succs, S, avoid) ==
  LET N == S \cup {t \in 1..Len(succs) : t # avoid /\ \E s \in S : t \in SuccSet(succs, s)}
  IN IF N = S THEN S ELSE Closure(succs, N, avoid)

Reach(succs) == Closure(succs, {Entry}, 0)

\* The dominator tree handed to the pass: the blocks reachable from entry
\* and the pairs <<a, b>> of them with a dominating b.
MakeDT(succs) ==
  LET R == Reach(succs)
  IN [reach |-> R,
      dom |-> {p \in R \X R :
                 \/ p[1] = p[2]
                 \/ p[2] \notin Closure(succs, IF p[1] = Entry THEN {} ELSE {Entry}, p[1])}]

\* A dominance test that holds only between blocks reachable from entry.
DominatesReachable(dt, a, b) == <<a, b>> \in dt.dom

\* DominatorTree::dominates(const BasicBlock*, const BasicBlock*)
Dominates(dt, a, b) ==
  IF a = b THEN TRUE
  ELSE IF b \notin dt.reach THEN TRUE
  ELSE IF a \notin dt.reach THEN FALSE
  ELSE <<a, b>> \in dt.dom

(***************************************************************************)
(* Promotability filter and use/def analyzer.                              *)
(***************************************************************************)
IsLoadOf(I, c) == I.op = "load" /\ I.ptr = Addr(c)
IsStoreTo(I, c) == I.op = "store" /\ I.ptr = Addr(c)

\* isAllocaPromotable: every user is a load from the cell or a store into
\* (never of) the cell.
isAllocaPromotable(F, c) ==
  \A b \in BlocksOf(F) : \A k \in 1..Len(F.body[b]) :
    InstUses(F.body[b][k], Addr(c)) =>
      \/ IsLoadOf(F.body[b][k], c)
      \/ IsStoreTo(F.body[b][k], c) /\ F.body[b][k].val # Addr(c)

\* AllocaInfo::clear
InfoClear ==
  [DefiningBlocks |-> <<>>, UsingBlocks |-> <<>>, OnlyStore |-> 0,
   OnlyBlock |-> 0, OnlyUsedInOneBlock |-> TRUE]

\* Lines 71-76: the block of a user, once it is recorded as a definition or
\* a use.
NoteBlock(info, bb) ==
  IF ~info.OnlyUsedInOneBlock THEN info
  ELSE IF info.OnlyBlock = 0 THEN [info EXCEPT !.OnlyBlock = bb]
  ELSE IF info.OnlyBlock # bb THEN [info EXCEPT !.OnlyUsedInOneBlock = FALSE]
  ELSE info

\* One iteration of the loop of lines 56-77 over the users.
AnalyzeUser(info, U, bb) ==
  NoteBlock(IF U.op = "store"
            THEN [info EXCEPT !.DefiningBlocks = Append(@, bb), !.OnlyStore = U.id]
            ELSE [info EXCEPT !.UsingBlocks = Append(@, bb)],
            bb)

RECURSIVE AnalyzeUsers(_, _, _, _)
AnalyzeUsers(F, us, k, info) ==
  IF k > Len(us) THEN info
  ELSE AnalyzeUsers(F, us, k + 1, AnalyzeUser(info, us[k], BlockOf(F, us[k].id)))

\* AllocaInfo::AnalyzeAlloca
AnalyzeAlloca(F, c) == AnalyzeUsers(F, Users(F, c), 1, InfoClear)

(***************************************************************************)
(* LargeBlockInfo: InstNumbers maps an instruction id to its index among   *)
(* the interesting instructions of its block.                              *)
(***************************************************************************)
isInterestingInstruction(I) ==
  (I.op = "load" /\ I.ptr.k = "addr") \/ (I.op = "store" /\ I.ptr.k = "addr")

\* LargeBlockInfo::getInstructionIndex, the map after the call
\* Lines 204-209: the interesting instructions of the block, numbered from 0.
NumberBlock(lbi, ints) ==
  [x \in DOMAIN lbi \cup {ints[k].id : k \in 1..Len(ints)} |->
     IF \E k \in 1..Len(ints) : ints[k].id = x THEN IndexIn(ints, x) - 1 ELSE lbi[x]]

LBIScan(F, lbi, i) ==
  IF i \in DOMAIN lbi THEN lbi
  ELSE NumberBlock(lbi, SelectSeq(F.body[BlockOf(F, i)], isInterestingInstruction))

\* LargeBlockInfo::getInstructionIndex, the index returned
getInstructionIndex(F, lbi, i) == LBIScan(F, lbi, i)[i]

\* LargeBlockInfo::deleteValue
deleteValue(lbi, i) == [x \in DOMAIN lbi \ {i} |-> lbi[x]]

(***************************************************************************)
(* Fast path: single store.                                                *)
(***************************************************************************)
\* One iteration of the loop over the users; st = [F, UsingBlocks, LBI].
\* Lines 278-279 and 432-433: a load that would be replaced with itself
\* reads poison.
ReplValFor(v, LI) == IF v = InstV(LI) THEN Poison ELSE v

\* Lines 252-283 for the load LI of block LIBB, lbi1 the numbering after the
\* index lookups of lines 258 and 260.
SingleStoreLoad(st, LI, LIBB, lbi1, OnlyStore, StoringGlobalVal, StoreBB, dt) ==
  IF /\ ~StoringGlobalVal
     /\ IF LIBB = StoreBB THEN lbi1[OnlyStore] > lbi1[LI]
        ELSE ~Dominates(dt, StoreBB, LIBB)
  THEN [st EXCEPT !.UsingBlocks = Append(@, LIBB), !.LBI = lbi1]
  ELSE [st EXCEPT !.F = EraseInst(RAUW(@, InstV(LI), ReplValFor(GetInst(@, OnlyStore).val, LI)),
                                  LI),
                  !.LBI = deleteValue(lbi1, LI)]

SingleStoreIn(st, U, LIBB, OnlyStore, StoringGlobalVal, StoreBB, dt) ==
  SingleStoreLoad(st, U.id, LIBB,
                  IF ~StoringGlobalVal /\ LIBB = StoreBB
                  THEN LBIScan(st.F, LBIScan(st.F, st.LBI, OnlyStore), U.id)
                  ELSE st.LBI,
                  OnlyStore, StoringGlobalVal, StoreBB, dt)

SingleStoreVisit(st, U, OnlyStore, StoringGlobalVal, StoreBB, dt) ==
  IF U.id = OnlyStore THEN st
  ELSE SingleStoreIn(st, U, BlockOf(st.F, U.id), OnlyStore, StoringGlobalVal, StoreBB, dt)

RECURSIVE SingleStoreLoop(_, _, _, _, _, _, _)
SingleStoreLoop(st, us, k, OnlyStore, StoringGlobalVal, StoreBB, dt) ==
  IF k > Len(us) THEN st
  ELSE SingleStoreLoop(SingleStoreVisit(st, us[k], OnlyStore, StoringGlobalVal, StoreBB, dt),
                       us, k + 1, OnlyStore, StoringGlobalVal, StoreBB, dt)

\* Every stored value treated as the result of an instruction.
StoringInstructionVal(v) == FALSE

\* bool StoringGlobalVal = !isa<Instruction>(OnlyStore->getOperand(0))
StoringGlobalValOf(v) == ~IsInstruction(v)

\* rewriteSingleStoreAlloca: [F, UsingBlocks, LBI, ok]
\* Lines 287-295, st the state the loop over the users leaves.
SingleStoreEnd(st, c, OnlyStore) ==
  IF st.UsingBlocks # <<>>
  THEN [F |-> st.F, UsingBlocks |-> st.UsingBlocks, LBI |-> st.LBI, ok |-> FALSE]
  ELSE [F |-> EraseAlloca(EraseInst(st.F, OnlyStore), c),
        UsingBlocks |-> st.UsingBlocks,
        LBI |-> deleteValue(st.LBI, OnlyStore),
        ok |-> TRUE]

rewriteSingleStoreAlloca(F, c, Info, lbi, dt) ==
  SingleStoreEnd(SingleStoreLoop([F |-> F, UsingBlocks |-> <<>>, LBI |-> lbi],
                                 Users(F, c), 1, Info.OnlyStore,
                                 StoringGlobalValOf(GetInst(F, Info.OnlyStore).val),
                                 BlockOf(F, Info.OnlyStore), dt),
                 c, Info.OnlyStore)

(***************************************************************************)
(* Fast path: single block.                                                *)
(***************************************************************************)
\* llvm::sort(StoresByIndex, less_first()): insertion into a sorted vector
RECURSIVE SortInsert(_, _)
SortInsert(s, e) ==
  IF s = <<>> THEN <<e>>
  ELSE IF e[1] < s[1][1] THEN <<e>> \o s
  ELSE <<s[1]>> \o SortInsert(Tail(s), e)

RECURSIVE SortByFirst(_, _)
SortByFirst(s, n) == IF n = 0 THEN <<>> ELSE SortInsert(SortByFirst(s, n - 1), s[n])

\* A search that stops at the first store of the sorted list.
LowerBoundFirst(sbi, LoadIdx) == IF \E k \in 1..Len(sbi) : sbi[k][1] < LoadIdx THEN 1 ELSE 0

\* llvm::lower_bound(StoresByIndex, (LoadIdx, nullptr), less_first()): the
\* number of leading entries whose index is below LoadIdx
LowerBound(sbi, LoadIdx) == Cardinality({k \in 1..Len(sbi) : sbi[k][1] < LoadIdx})

\* The loop over the loads; st = [F, LBI, ok], stopping at the first load
\* that no store precedes.
\* Lines 432-437: the load LI replaced with the value v, lbi1 the numbering
\* after the index lookup of line 408.
SingleBlockLoad(st, LI, lbi1, v) ==
  [st EXCEPT !.F = EraseInst(RAUW(@, InstV(LI), ReplValFor(v, LI)), LI),
             !.LBI = deleteValue(lbi1, LI)]

RECURSIVE SingleBlockLoop(_, _, _, _)
SingleBlockLoop(st, us, k, sbi) ==
  IF k > Len(us) THEN st
  ELSE IF us[k].op # "load" THEN SingleBlockLoop(st, us, k + 1, sbi)
  ELSE IF sbi # <<>> /\ LowerBound(sbi, getInstructionIndex(st.F, st.LBI, us[k].id)) = 0
  THEN [st EXCEPT !.LBI = LBIScan(st.F, @, us[k].id), !.ok = FALSE]
  ELSE SingleBlockLoop(
         SingleBlockLoad(st, us[k].id, LBIScan(st.F, st.LBI, us[k].id),
                         IF sbi = <<>> THEN Undef
                         ELSE GetInst(st.F, sbi[LowerBound(sbi, getInstructionIndex(
                                                           st.F, st.LBI, us[k].id))][2]).val),
         us, k + 1, sbi)

RECURSIVE CollectStores(_, _, _, _)
CollectStores(F, us, k, acc) ==
  IF k > Len(us) THEN acc
  ELSE IF us[k].op # "store" THEN CollectStores(F, us, k + 1, acc)
  ELSE CollectStores(F, us, k + 1,
                     [LBI |-> LBIScan(F, acc.LBI, us[k].id),
                      sbi |-> Append(acc.sbi, <<getInstructionIndex(F, acc.LBI, us[k].id),
                                                us[k].id>>)])

RECURSIVE EraseStores(_, _, _)
EraseStores(st, us, k) ==
  IF k = 0 THEN st
  ELSE EraseStores([st EXCEPT !.F = EraseInst(@, us[k].id), !.LBI = deleteValue(@, us[k].id)],
                   us, k - 1)

\* promoteSingleBlockAlloca: [F, LBI, ok]
\* Lines 440-447, st the state the loop over the loads leaves.
SingleBlockEnd(st, c, rest) ==
  IF ~st.ok THEN st
  ELSE [EraseStores(st, rest, Len(rest)) EXCEPT !.F = EraseAlloca(@, c)]

\* Lines 399-438, col the stores collected with their indices.
SingleBlockLoads(F, c, us, col) ==
  SingleBlockLoop([F |-> F, LBI |-> col.LBI, ok |-> TRUE], us, 1,
                  SortByFirst(col.sbi, Len(col.sbi)))

SingleBlockUsers(F, c, lbi, us) ==
  SingleBlockLoads(F, c, us, CollectStores(F, us, 1, [LBI |-> lbi, sbi |-> <<>>]))

promoteSingleBlockAlloca(F, c, lbi) ==
  SingleBlockEnd(SingleBlockUsers(F, c, lbi, Users(F, c)), c,
                 Users(SingleBlockUsers(F, c, lbi, Users(F, c)).F, c))

(***************************************************************************)
(* Live-in analysis and phi placement.                                     *)
(***************************************************************************)
\* A scan that finds a store wherever in the block it is.
HasStoreFrom(body, c, k) == \E j \in k..Len(body) : IsStoreTo(body[j], c)

\* The scan of lines 693-712: whether the first access to the cell in the
\* block is a store.
RECURSIVE FirstAccessIsStore(_, _, _)
FirstAccessIsStore(body, c, k) ==
  IF k > Len(body) THEN FALSE
  ELSE IF IsStoreTo(body[k], c) THEN TRUE
  ELSE IF IsLoadOf(body[k], c) THEN FALSE
  ELSE FirstAccessIsStore(body, c, k + 1)

\* The first loop of ComputeLiveInBlocks; i and e are the loop's counters.
RECURSIVE LiveInFilter(_, _, _, _, _, _)
LiveInFilter(F, c, wl, i, e, DefBlocks) ==
  IF i = e THEN wl
  ELSE
    LET BB == wl[i + 1]
    IN IF BB \notin DefBlocks THEN LiveInFilter(F, c, wl, i + 1, e, DefBlocks)
       ELSE IF FirstAccessIsStore(F.body[BB], c, 1)
       THEN LiveInFilter(F, c, SubSeq([wl EXCEPT ![i + 1] = wl[Len(wl)]], 1, Len(wl) - 1),
                         i, e - 1, DefBlocks)
       ELSE LiveInFilter(F, c, wl, i + 1, e, DefBlocks)

\* predecessors(BB): one entry per successor slot that targets BB
RECURSIVE PredList(_, _, _)
PredList(succs, b, p) ==
  IF p = 0 THEN <<>>
  ELSE PredList(succs, b, p - 1) \o [k \in 1..CountEdges(succs, p, b) |-> p]

Predecessors(succs, b) == PredList(succs, b, Len(succs))

\* The second loop of ComputeLiveInBlocks.
RECURSIVE LiveInWalk(_, _, _, _)
LiveInWalk(succs, wl, live, DefBlocks) ==
  IF wl = <<>> THEN live
  ELSE
    LET BB == wl[Len(wl)]
        rest == SubSeq(wl, 1, Len(wl) - 1)
    IN IF BB \in live THEN LiveInWalk(succs, rest, live, DefBlocks)
       ELSE LiveInWalk(succs,
                       rest \o SelectSeq(Predecessors(succs, BB), LAMBDA P : P \notin DefBlocks),
                       live \cup {BB}, DefBlocks)

\* The cell taken to be live on entry to every block.
LiveInEverywhere(F, c, UsingBlocks, DefBlocks) == BlocksOf(F)

\* PromoteMem2Reg::ComputeLiveInBlocks
ComputeLiveInBlocks(F, c, UsingBlocks, DefBlocks) ==
  LiveInWalk(F.succs,
             LiveInFilter(F, c, UsingBlocks, 0, Len(UsingBlocks), DefBlocks),
             {}, DefBlocks)

\* The dominance frontier of a block reachable from entry.
DomFrontier(succs, dt, x) ==
  {y \in dt.reach :
     /\ \E p \in dt.reach : y \in SuccSet(succs, p) /\ <<x, p>> \in dt.dom
     /\ ~(x # y /\ <<x, y>> \in dt.dom)}

\* IDF.calculate: the iterated dominance frontier of the defining blocks,
\* restricted to the live-in blocks.
RECURSIVE IDFIter(_, _, _, _, _)
IDFIter(succs, dt, Defs, LiveIn, S) ==
  LET N == {y \in LiveIn : \E x \in (Defs \cap dt.reach) \cup S : y \in DomFrontier(succs, dt, x)}
  IN IF N = S THEN S ELSE IDFIter(succs, dt, Defs, LiveIn, N)

IDFCalculateNone(succs, dt, Defs, LiveIn) == {}

IDFCalculate(succs, dt, Defs, LiveIn) == IDFIter(succs, dt, Defs, LiveIn, {})

\* BBNumbers: function order, from 0
BBNumber(b) == b - 1

RECURSIVE SortedSeq(_)
SortedSeq(S) ==
  IF S = {} THEN <<>>
  ELSE LET m == CHOOSE x \in S : \A y \in S : x <= y
       IN <<m>> \o SortedSeq(S \ {m})

\* The id of the phi created for a cell in a block.
PhiId(b, c) == 0 - ((b + c) * (b + c) + c)

\* QueuePhiNode; st = [F, NewPhiNodes, PhiToAllocaMap, Version]
QueuePhiNode(st, BB, AllocaNo, cell) ==
  LET key == <<BBNumber(BB), AllocaNo>>
  IN IF key \in DOMAIN st.NewPhiNodes THEN st
     ELSE
       LET PN == Phi(PhiId(BB, cell), <<>>, <<cell, st.Version>>)
       IN [F |-> [st.F EXCEPT !.body[BB] = <<PN>> \o @],
           NewPhiNodes |-> st.NewPhiNodes @@ (key :> PN.id),
           PhiToAllocaMap |-> st.PhiToAllocaMap @@ (PN.id :> AllocaNo),
           Version |-> st.Version + 1]

RECURSIVE QueuePhiNodes(_, _, _, _, _)
QueuePhiNodes(st, PHIBlocks, k, AllocaNo, cell) ==
  IF k > Len(PHIBlocks) THEN st
  ELSE QueuePhiNodes(QueuePhiNode(st, PHIBlocks[k], AllocaNo, cell),
                     PHIBlocks, k + 1, AllocaNo, cell)

(***************************************************************************)
(* Renaming walk.                                                          *)
(* rs = [F, BB, Pred, Vals, Visited, Worklist, P2A, ok, edges, bodies]:    *)
(* edges and bodies record the walk (every pass through NextIteration and  *)
(* every block whose body was rewritten).                                  *)
(***************************************************************************)
\* Lines 798-803 for the phi APN of cell AllocaNo, the k-th instruction of BB.
AddIncoming(rs, k, APN, AllocaNo, NumEdges) ==
  [rs EXCEPT !.F.body[rs.BB][k].inc =
               @ \o [i \in 1..NumEdges |-> [v |-> rs.Vals[AllocaNo + 1], b |-> rs.Pred]],
             !.Vals[AllocaNo + 1] = InstV(APN)]

\* Line 796: PhiToAllocaMap[APN], a lookup that inserts 0 for a key it does
\* not hold.
AddPhiEntry(rs, k, APN, NumEdges) ==
  IF APN \in DOMAIN rs.P2A
  THEN AddIncoming(rs, k, APN, rs.P2A[APN], NumEdges)
  ELSE AddIncoming([rs EXCEPT !.P2A = @ @@ (APN :> 0)], k, APN, 0, NumEdges)

\* The do-while loop of lines 795-813, at the k-th instruction of BB.
RECURSIVE AddPhiEntries(_, _, _, _)
AddPhiEntries(rs, k, NewPHINumOperands, NumEdges) ==
  IF \/ k + 1 > Len(rs.F.body[rs.BB])
     \/ rs.F.body[rs.BB][k + 1].op # "phi"
     \/ Len(rs.F.body[rs.BB][k + 1].inc) # NewPHINumOperands
  THEN AddPhiEntry(rs, k, rs.F.body[rs.BB][k].id, NumEdges)
  ELSE AddPhiEntries(AddPhiEntry(rs, k, rs.F.body[rs.BB][k].id, NumEdges),
                     k + 1, NewPHINumOperands, NumEdges)

\* An iteration that erases a store without taking its value as the cell's
\* current value.
DropStoreAt(rs, I, AllocaLookup) ==
  IF ~(I.op \in {"load", "store"} /\ I.ptr.k = "addr" /\ I.ptr.n \in DOMAIN AllocaLookup)
  THEN rs
  ELSE IF I.op = "load"
  THEN [rs EXCEPT !.F = EraseInst(RAUW(@, InstV(I.id), rs.Vals[AllocaLookup[I.ptr.n] + 1]),
                                  I.id)]
  ELSE [rs EXCEPT !.F = EraseInst(@, I.id)]

\* A walk over the instructions of BB that drops the stored values.
RECURSIVE RewriteBodyDropStores(_, _, _, _)
RewriteBodyDropStores(rs, ids, k, AllocaLookup) ==
  IF k > Len(ids) THEN rs
  ELSE RewriteBodyDropStores(DropStoreAt(rs, GetInst(rs.F, ids[k]), AllocaLookup),
                             ids, k + 1, AllocaLookup)

\* One iteration of the loop of lines 821-855, at instruction I.
RewriteInst(rs, I, AllocaLookup) ==
  IF ~(I.op \in {"load", "store"} /\ I.ptr.k = "addr" /\ I.ptr.n \in DOMAIN AllocaLookup)
  THEN rs
  ELSE IF I.op = "load"
  THEN [rs EXCEPT !.F = EraseInst(RAUW(@, InstV(I.id), rs.Vals[AllocaLookup[I.ptr.n] + 1]),
                                  I.id)]
  ELSE [rs EXCEPT !.Vals[AllocaLookup[I.ptr.n] + 1] = I.val, !.F = EraseInst(@, I.id)]

\* The loop of lines 821-855 over the instructions of BB.
RECURSIVE RewriteBody(_, _, _, _)
RewriteBody(rs, ids, k, AllocaLookup) ==
  IF k > Len(ids) THEN rs
  ELSE RewriteBody(RewriteInst(rs, GetInst(rs.F, ids[k]), AllocaLookup),
                   ids, k + 1, AllocaLookup)

\* The successors after the first, a successor named by two slots twice.
LaterSuccsAll(ss) == Tail(ss)

\* The successors after the first, each once (VisitedSuccs).
LaterSuccs(ss) ==
  SelectSeq([k \in 1..(Len(ss) - 1) |-> IF \E j \in 1..k : ss[j] = ss[k + 1] THEN 0 ELSE ss[k + 1]],
            LAMBDA x : x # 0)

\* Lines 858-875: the walk goes on with the first successor, the others
\* queued.
PushSuccs(rs, from, ss, later) ==
  [rs EXCEPT !.BB = ss[1], !.Pred = from,
             !.Worklist = @ \o [k \in 1..Len(later) |->
                                  [BB |-> later[k], Pred |-> from, Vals |-> rs.Vals]]]

\* Lines 821-855 for the block BB, entered for the first time.
VisitBlock(rs, BB, now, AllocaLookup) ==
  RewriteBody([rs EXCEPT !.Visited = @ \cup {BB}, !.bodies = Append(@, BB)],
              [k \in 1..Len(now) |-> now[k].id], 1, AllocaLookup)

\* Lines 776-814: the entries for the edges from Pred, in the phis of BB that
\* the pass created.
EnterBlock(rs, body, NumEdges) ==
  IF body # <<>> /\ body[1].op = "phi" /\ body[1].id \in DOMAIN rs.P2A
  THEN AddPhiEntries([rs EXCEPT !.ok = @ /\ NumEdges > 0,
                                !.edges = Append(@, <<rs.Pred, rs.BB>>)],
                     1, Len(body[1].inc), NumEdges)
  ELSE [rs EXCEPT !.edges = Append(@, <<rs.Pred, rs.BB>>)]

\* RenamePass, from NextIteration to its return.
RECURSIVE RenamePass(_, _)
RECURSIVE RenameFrom(_, _, _, _)
RenameFrom(rs, BB, ss, AllocaLookup) ==
  IF BB \in rs.Visited THEN rs
  ELSE IF ss = <<>> THEN VisitBlock(rs, BB, rs.F.body[BB], AllocaLookup)
  ELSE RenamePass(PushSuccs(VisitBlock(rs, BB, rs.F.body[BB], AllocaLookup),
                            BB, ss, LaterSuccs(ss)),
                  AllocaLookup)

RenamePass(rs, AllocaLookup) ==
  RenameFrom(EnterBlock(rs, rs.F.body[rs.BB],
                        IF rs.Pred = 0 THEN 0 ELSE CountEdges(rs.F.succs, rs.Pred, rs.BB)),
             rs.BB, rs.F.succs[rs.BB], AllocaLookup)

(***************************************************************************)
(* Cleanup.                                                                *)
(***************************************************************************)
\* Erasing the cells together with the instructions that still use them.
EraseAllocasAndUsers(F, as, k) ==
  [F EXCEPT !.allocas = @ \ {as[j] : j \in k..Len(as)},
            !.body = [b \in 1..Len(@) |->
                        SelectSeq(@[b], LAMBDA I : \A j \in k..Len(as) :
                                                     ~InstUses(I, Addr(as[j])))]]

\* Erasing the cells and leaving their uses as they are.
EraseAllocasKeepUses(F, as, k) ==
  [F EXCEPT !.allocas = @ \ {as[j] : j \in k..Len(as)}]

\* The loop of lines 562-569 over Allocas.
RECURSIVE EraseAllocas(_, _, _)
EraseAllocas(F, as, k) ==
  IF k > Len(as) THEN F
  ELSE LET F1 == IF Users(F, as[k]) # <<>> THEN RAUW(F, Addr(as[k]), Poison) ELSE F
       IN EraseAllocas(EraseAlloca(F1, as[k]), as, k + 1)

\* SimplifyQuery::isUndefValue: m_Undef matches undef and poison
isUndefValue(v) == v.k \in {"undef", "poison"}

\* A dominance test that always succeeds.
valueDominatesAlways(F, V, PN, dt) == TRUE

\* DominatorTree::dominates(const Value*, const Instruction*) for a phi user
valueDominatesPHI(F, V, PN, dt) ==
  IF ~IsInstruction(V) THEN TRUE
  ELSE
    LET DefBB == IF V.k = "addr" THEN Entry ELSE BlockOf(F, V.n)
        UseBB == BlockOf(F, PN)
    IN IF UseBB \notin dt.reach THEN TRUE
       ELSE IF DefBB \notin dt.reach THEN FALSE
       ELSE IF DefBB = UseBB THEN FALSE
       ELSE Dominates(dt, DefBB, UseBB)

\* The loop of lines 333-345; acc = [Common, HasUndef, bail]
RECURSIVE SimplifyScan(_, _, _, _)
SimplifyScan(inc, k, PN, acc) ==
  IF k > Len(inc) \/ acc.bail THEN acc
  ELSE
    LET v == inc[k].v
    IN IF v = InstV(PN) THEN SimplifyScan(inc, k + 1, PN, acc)
       ELSE IF isUndefValue(v) THEN SimplifyScan(inc, k + 1, PN, [acc EXCEPT !.HasUndef = TRUE])
       ELSE IF acc.Common # NoVal /\ v # acc.Common
       THEN [acc EXCEPT !.bail = TRUE]
       ELSE SimplifyScan(inc, k + 1, PN, [acc EXCEPT !.Common = v])

\* simplifyPHINode: the value the phi folds to, NoVal for null
\* Lines 349-359, acc what the loop over the incoming values found.
SimplifyResult(F, PN, dt, acc) ==
  IF acc.bail THEN NoVal
  ELSE IF acc.Common = NoVal THEN Undef
  ELSE IF acc.HasUndef
  THEN (IF valueDominatesPHI(F, acc.Common, PN, dt) THEN acc.Common ELSE NoVal)
  ELSE acc.Common

simplifyPHINode(F, PN, dt) ==
  SimplifyResult(F, PN, dt,
                 SimplifyScan(GetInst(F, PN).inc, 1, PN,
                              [Common |-> NoVal, HasUndef |-> FALSE, bail |-> FALSE]))

\* The registry's keys in iteration order.
RECURSIVE KeySeq(_)
KeySeq(K) ==
  IF K = {} THEN <<>>
  ELSE LET m == CHOOSE x \in K :
                  \A y \in K : x[1] < y[1] \/ (x[1] = y[1] /\ x[2] <= y[2])
       IN <<m>> \o KeySeq(K \ {m})

RegistryOrder(reg, rev) ==
  IF rev THEN Reverse(KeySeq(DOMAIN reg)) ELSE KeySeq(DOMAIN reg)

\* An erasure that does not set EliminatedAPHI.
SimplifyOneQuiet(st, key, PN, V) ==
  IF V = NoVal THEN st
  ELSE [F |-> EraseInst(RAUW(st.F, InstV(PN), V), PN),
        NewPhiNodes |-> [x \in DOMAIN st.NewPhiNodes \ {key} |-> st.NewPhiNodes[x]],
        Elim |-> st.Elim,
        simp |-> st.simp @@ (PN :> V),
        incs |-> st.incs @@ (PN :> GetInst(st.F, PN).inc)]

\* Lines 587-597 for the phi PN registered under key, V what simplifyPHINode
\* returned.
SimplifyOne(st, key, PN, V) ==
  IF V = NoVal THEN st
  ELSE [F |-> EraseInst(RAUW(st.F, InstV(PN), V), PN),
        NewPhiNodes |-> [x \in DOMAIN st.NewPhiNodes \ {key} |-> st.NewPhiNodes[x]],
        Elim |-> TRUE,
        simp |-> st.simp @@ (PN :> V),
        incs |-> st.incs @@ (PN :> GetInst(st.F, PN).inc)]

\* One round of the loop of lines 583-598; st = [F, NewPhiNodes, Elim, simp,
\* incs], simp recording the value each erased phi was replaced with and
\* incs the incoming list it had by then
RECURSIVE SimplifyRound(_, _, _, _)
SimplifyRound(st, keys, k, dt) ==
  IF k > Len(keys) THEN st
  ELSE
    SimplifyRound(SimplifyOne(st, keys[k], st.NewPhiNodes[keys[k]],
                              simplifyPHINode(st.F, st.NewPhiNodes[keys[k]], dt)),
                  keys, k + 1, dt)

\* Preds.erase(EntIt): the list without the first entry equal to b
RECURSIVE RemoveFirst(_, _)
RemoveFirst(s, b) ==
  IF s = <<>> THEN <<>>
  ELSE IF s[1] = b THEN Tail(s)
  ELSE <<s[1]>> \o RemoveFirst(Tail(s), b)

\* The loop of lines 637-646; st = [Preds, ok]
RECURSIVE RemoveIncoming(_, _, _)
RemoveIncoming(st, inc, k) ==
  IF k > Len(inc) THEN st
  ELSE RemoveIncoming([Preds |-> RemoveFirst(st.Preds, inc[k].b),
                       ok |-> st.ok /\ \E j \in 1..Len(st.Preds) : st.Preds[j] = inc[k].b],
                      inc, k + 1)

\* Every phi at the head of BB given the entries.
RECURSIVE AddPoisonAll(_, _, _, _, _)
AddPoisonAll(F, BB, k, NumBadPreds, Preds) ==
  IF k > Len(F.body[BB]) \/ F.body[BB][k].op # "phi"
  THEN F
  ELSE AddPoisonAll([F EXCEPT !.body[BB][k].inc =
                        @ \o [j \in 1..Len(Preds) |-> [v |-> Poison, b |-> Preds[j]]]],
                    BB, k + 1, NumBadPreds, Preds)

\* The loop of lines 654-659 at the k-th instruction of BB.
RECURSIVE AddPoison(_, _, _, _, _)
AddPoison(F, BB, k, NumBadPreds, Preds) ==
  IF k > Len(F.body[BB]) \/ F.body[BB][k].op # "phi"
     \/ Len(F.body[BB][k].inc) # NumBadPreds
  THEN F
  ELSE AddPoison([F EXCEPT !.body[BB][k].inc =
                     @ \o [j \in 1..Len(Preds) |-> [v |-> Poison, b |-> Preds[j]]]],
                 BB, k + 1, NumBadPreds, Preds)

\* Lines 652-659, rem the predecessors SomePHI has no entry for.
FillPreds(st, BB, NumBadPreds, rem) ==
  [F |-> AddPoison(st.F, BB, 1, NumBadPreds, rem.Preds), ok |-> st.ok /\ rem.ok]

\* Lines 613-659 for the phi SomePHI of block BB, inc its incoming list.
FillBlock(st, SomePHI, BB, inc) ==
  IF st.F.body[BB][1].id # SomePHI \/ Len(inc) = PredSize(st.F.succs, BB) THEN st
  ELSE FillPreds(st, BB, Len(inc),
                 RemoveIncoming([Preds |-> Predecessors(st.F.succs, BB), ok |-> TRUE], inc, 1))

\* No entry added for the predecessors the walk did not come from.
PoisonFillSkipped(st, reg, keys, k) == st

\* The loop of lines 606-660; st = [F, ok]
RECURSIVE PoisonFill(_, _, _, _)
PoisonFill(st, reg, keys, k) ==
  IF k > Len(keys) THEN st
  ELSE
    PoisonFill(FillBlock(st, reg[keys[k]], BlockOf(st.F, reg[keys[k]]),
                         GetInst(st.F, reg[keys[k]]).inc),
               reg, keys, k + 1)

(***************************************************************************)
(* Input functions.                                                        *)
(***************************************************************************)
\* diamond; while loop; join entered from the entry block, twice from one
\* block and from a block not reachable from entry; self loop beside a cycle
\* not reachable from entry; single block
Diamond == << <<2, 3>>, <<4>>, <<4>>, <<>> >>
WhileLoop == << <<2>>, <<3, 4>>, <<2>>, <<>> >>

CFGs ==
  { Diamond,
    WhileLoop,
    << <<2, 4>>, <<4, 4>>, <<4>>, <<>> >>,
    << <<2>>, <<2, 3>>, <<>>, <<4, 2>> >>,
    << <<>> >> }

\* An item is one access to a cell, in block b: a load followed by an
\* instruction using it ("ld"), a store ("st") of a constant (v = "k1",
\* "k2"), of the result of an instruction placed right before the store
\* ("loc"), of the load of item r ("ref") or of the address of the next cell
\* ("adr"), or an instruction that takes the cell's address ("esc").
ItemSet(n, cells, vals, kinds) ==
  { it \in [b : 1..n, kind : kinds, c : cells, v : vals \cup {"-"}, r : 0..MaxItems] :
      /\ it.kind = "st" <=> it.v # "-"
      /\ it.v = "ref" <=> it.r # 0 }

ItemInsts(j, it) ==
  IF it.kind = "ld" THEN << Load(2 * j - 1, it.c), Op(2 * j, InstV(2 * j - 1)) >>
  ELSE IF it.kind = "esc" THEN << Op(2 * j - 1, Addr(it.c)) >>
  ELSE IF it.v = "k1" THEN << Store(2 * j - 1, Const(1), it.c) >>
  ELSE IF it.v = "k2" THEN << Store(2 * j - 1, Const(2), it.c) >>
  ELSE IF it.v = "loc" THEN << Op(2 * j - 1, NoVal), Store(2 * j, InstV(2 * j - 1), it.c) >>
  ELSE IF it.v = "adr" THEN << Store(2 * j - 1, Addr((it.c % NumCells) + 1), it.c) >>
  ELSE << Store(2 * j - 1, InstV(2 * it.r - 1), it.c) >>

\* Well-formed SSA: a stored load result is that of a load item, and in a
\* block reachable from entry the load dominates the store.
ItemsOK(dt, its) ==
  \A j \in 1..Len(its) :
    (its[j].v = "ref") =>
      LET i == its[j].r
      IN /\ i <= Len(its)
         /\ its[i].kind = "ld"
         /\ its[j].b \in dt.reach =>
              /\ its[i].b \in dt.reach
              /\ IF its[i].b = its[j].b THEN i < j ELSE <<its[i].b, its[j].b>> \in dt.dom

\* The sequences of n items of the set, in program order.
RECURSIVE ItemSeqs(_, _)
ItemSeqs(items, n) ==
  IF n = 0 THEN {<<>>}
  ELSE { Append(p[1], p[2]) :
           p \in { q \in ItemSeqs(items, n - 1) \X items :
                     q[1] = <<>> \/ q[1][Len(q[1])].b <= q[2].b } }

RECURSIVE BodyOf(_, _, _)
BodyOf(its, b, j) ==
  IF j = 0 THEN <<>>
  ELSE BodyOf(its, b, j - 1) \o (IF its[j].b = b THEN ItemInsts(j, its[j]) ELSE <<>>)

MakeF(succs, its, cells, urev) ==
  [body |-> [b \in 1..Len(succs) |-> BodyOf(its, b, Len(its))],
   succs |-> succs,
   tval |-> [b \in 1..Len(succs) |-> NoVal],
   allocas |-> cells,
   urev |-> urev]

\* The functions over one graph whose items are a well-formed sequence of
\* between lo and hi items of the set.
GenFor(succs, dt, items, lo, hi, cells, urev) ==
  { MakeF(succs, its, cells, urev) :
      its \in { q \in UNION {ItemSeqs(items, n) : n \in lo..hi} : ItemsOK(dt, q) } }

\* Every function over one of the graphs with up to MaxItems accesses to
\* one cell.
GenInputs ==
  UNION { GenFor(succs, MakeDT(succs),
                 ItemSet(Len(succs), {1}, {"k1", "loc", "ref"}, {"ld", "st"}),
                 0, MaxItems, {1}, FALSE) :
          succs \in CFGs }

\* Every function over the diamond or the while loop with two accesses to
\* NumCells cells, cells whose address is taken included.
GenInputs2 ==
  UNION { GenFor(succs, MakeDT(succs),
                 ItemSet(Len(succs), Cells, {"k2", "ref", "adr"}, {"ld", "st", "esc"}),
                 2, 2, Cells, TRUE) :
          succs \in {Diamond, WhileLoop} }

(***************************************************************************)
(* Scenario inputs (section 8 of the specification and variations).        *)
(***************************************************************************)
MkF(body, succs, tval, cells, urev) ==
  [body |-> body, succs |-> succs, tval |-> tval, allocas |-> cells, urev |-> urev]

\* S1: store 1, cell; v = load cell; return v
S1(urev) == MkF(<< <<Store(1, Const(1), 1), Load(2, 1)>> >>, << <<>> >>, <<InstV(2)>>, {1}, urev)

\* S2: if/else with two stores, read at the join
S2(urev) ==
  MkF(<< <<>>, <<Store(1, Const(1), 1)>>, <<Store(2, Const(2), 1)>>, <<Load(3, 1)>> >>,
      Diamond, <<NoVal, NoVal, NoVal, InstV(3)>>, {1}, urev)

\* S3: while loop reading the cell in the header and updating it in the body
S3(urev) ==
  MkF(<< <<Store(1, Const(1), 1)>>, <<Load(2, 1)>>,
         <<Op(3, InstV(2)), Store(4, InstV(3), 1)>>, <<>> >>,
      WhileLoop, <<NoVal, InstV(2), NoVal, InstV(2)>>, {1}, urev)

\* S4: v = load cell; store 7, cell; return v
S4(urev) == MkF(<< <<Load(1, 1), Store(2, Const(7), 1)>> >>, << <<>> >>, <<InstV(1)>>, {1}, urev)

\* S4 with the stored value computed by an instruction
S4i(urev) ==
  MkF(<< <<Op(3, NoVal), Load(1, 1), Store(2, InstV(3), 1)>> >>, << <<>> >>, <<InstV(1)>>,
      {1}, urev)

\* S5: S2 with a block, not reachable from entry, that loads the cell
S5(urev) ==
  MkF(<< <<>>, <<Store(1, Const(1), 1)>>, <<Store(2, Const(2), 1)>>, <<Load(3, 1)>>,
         <<Load(4, 1), Op(5, InstV(4))>> >>,
      << <<2, 3>>, <<4>>, <<4>>, <<>>, <<4>> >>,
      <<NoVal, NoVal, NoVal, InstV(3), NoVal>>, {1}, urev)

\* A cell used only in a block not reachable from entry, read before and
\* after its two stores
S5u(urev) ==
  MkF(<< <<>>, <<Load(1, 1), Op(2, InstV(1)), Store(3, Const(1), 1), Store(4, Const(2), 1),
               Load(5, 1), Op(6, InstV(5))>> >>,
      << <<>>, <<>> >>, <<NoVal, NoVal>>, {1}, urev)

\* The address of cell 2 is stored to cell 1, which is never read
S7(urev) ==
  MkF(<< <<Store(1, Addr(2), 1), Store(2, Const(1), 2), Load(3, 2)>> >>,
      << <<>> >>, <<InstV(3)>>, {1, 2}, urev)

\* S6: B stores x and ends in a switch whose two cases both target S
S6(x, urev) ==
  MkF(<< <<Op(1, NoVal), Store(2, x, 1)>>, <<Load(3, 1)>> >>,
      << <<2, 2>>, <<>> >>, <<NoVal, InstV(3)>>, {1}, urev)

\* S6 where B stores twice
S6g(x, urev) ==
  MkF(<< <<Store(4, Const(2), 1), Op(1, NoVal), Store(2, x, 1)>>, <<Load(3, 1)>> >>,
      << <<2, 2>>, <<>> >>, <<NoVal, InstV(3)>>, {1}, urev)

\* S6 where S is also entered from the entry block and from a block not
\* reachable from entry
S6j(x, urev) ==
  MkF(<< <<Store(1, Const(2), 1)>>, <<Op(2, NoVal), Store(3, x, 1)>>,
         <<Store(4, Const(1), 1)>>, <<Load(5, 1)>> >>,
      << <<2, 4>>, <<4, 4>>, <<4>>, <<>> >>,
      <<NoVal, NoVal, NoVal, InstV(5)>>, {1}, urev)

\* A while loop that the entry block can bypass: cell 1 is stored before the
\* loop, its own value stored back in the loop body, and read behind the
\* loop; cell 2 is read in the header and updated in the body
S8(urev) ==
  MkF(<< <<Store(1, Const(1), 1)>>, <<Load(2, 1), Load(3, 2)>>,
         <<Store(4, InstV(2), 1), Op(5, NoVal), Store(6, InstV(5), 2)>>,
         <<Load(7, 1), Op(8, InstV(7))>> >>,
      << <<2, 4>>, <<3, 4>>, <<2>>, <<>> >>,
      <<NoVal, InstV(3), NoVal, InstV(7)>>, {1, 2}, urev)

\* A while loop whose body ends in a switch with both cases back to the
\* header: the body stores back the value the header read
S9(urev) ==
  MkF(<< <<Store(1, Const(1), 1)>>, <<Load(2, 1), Op(3, InstV(2))>>,
         <<Store(4, InstV(2), 1)>>, <<Load(5, 1)>> >>,
      << <<2>>, <<3, 4>>, <<2, 2>>, <<>> >>,
      <<NoVal, InstV(3), NoVal, InstV(5)>>, {1}, urev)

\* A diamond with three cells: cell r is stored once, in the entry block,
\* cells a and b are stored in both arms; all three are read in the join
S10(r, a, b, urev) ==
  MkF(<< <<Store(1, Const(1), r)>>,
         <<Store(2, Const(1), a), Store(3, Const(1), b)>>,
         <<Store(4, Const(2), a), Store(5, Const(2), b)>>,
         <<Load(6, a), Load(7, b), Load(8, r),
           Op(9, InstV(6)), Op(10, InstV(7)), Op(11, InstV(8))>> >>,
      Diamond, <<NoVal, NoVal, NoVal, NoVal>>, {1, 2, 3}, urev)

\* A join that already holds a phi, with an entry for each of its four
\* predecessor edges: one from the entry block, two from the block whose
\* switch names the join twice, one from a block not reachable from entry;
\* the cell is stored on every way in and read in the join
S11(urev) ==
  MkF(<< <<Store(1, Const(1), 1)>>, <<Store(2, Const(2), 1)>>,
         <<Store(3, Const(1), 1)>>,
         <<Phi(10, << [v |-> Const(1), b |-> 1], [v |-> Const(2), b |-> 2],
                      [v |-> Const(2), b |-> 2], [v |-> Const(1), b |-> 3] >>, NoName),
           Load(4, 1), Op(5, InstV(4)), Op(6, InstV(10))>> >>,
      << <<2, 4>>, <<4, 4>>, <<4>>, <<>> >>,
      <<NoVal, NoVal, NoVal, InstV(5)>>, {1}, urev)

\* A while loop whose header already holds a phi, one of its entries the
\* result of a load of the cell in the loop body
S12(urev) ==
  MkF(<< <<Store(1, Const(1), 1)>>,
         <<Phi(10, << [v |-> Const(2), b |-> 1], [v |-> InstV(4), b |-> 3] >>, NoName),
           Load(2, 1), Op(3, InstV(10))>>,
         <<Load(4, 1), Store(5, InstV(3), 1)>>,
         <<Load(6, 1), Op(7, InstV(6))>> >>,
      WhileLoop, <<NoVal, InstV(2), NoVal, InstV(7)>>, {1}, urev)

Scenarios ==
  UNION { {S1(u), S2(u), S3(u), S4(u), S4i(u), S5(u), S5u(u), S7(u), S8(u), S9(u),
           S6(Const(1), u), S6(InstV(1), u), S6g(Const(1), u), S6g(InstV(1), u),
           S6j(Const(1), u), S6j(InstV(2), u),
           S10(1, 2, 3, u), S10(2, 1, 3, u), S10(3, 1, 2, u), S11(u), S12(u)} :
          u \in BOOLEAN }

(***************************************************************************)
(* State.                                                                  *)
(***************************************************************************)
VARIABLES
  F,               \* the function
  DT,              \* its dominator tree
  pc,              \* where the driver and run() stand
  callNo,          \* which call of promoteMemoryToRegister this is
  Allocas,         \* PromoteMem2Reg::Allocas
  AllocaNum,       \* the counter of the loop of lines 459-533
  AllocaLookup,    \* PromoteMem2Reg::AllocaLookup (cell -> index)
  NewPhiNodes,     \* PromoteMem2Reg::NewPhiNodes (<<block number, index>> -> phi)
  PhiToAllocaMap,  \* PromoteMem2Reg::PhiToAllocaMap (phi -> index)
  Visited,         \* PromoteMem2Reg::Visited
  Worklist,        \* RenamePassWorkList
  LBI,             \* LargeBlockInfo::InstNumbers
  assertsOK,       \* no assertion of the code has failed
  F0,              \* the function as it was handed to the pass
  hist             \* what the pass did: the path each cell took, the renaming
                   \* walk, the phis placed <<phi, block, cell>>, the value
                   \* each erased phi was replaced with and the incoming
                   \* list it had by then, the function the first call left,
                   \* the allocas the driver collected last and the cells
                   \* the loop of lines 459-533 has examined since

vars == <<F, DT, pc, callNo, Allocas, AllocaNum, AllocaLookup, NewPhiNodes,
          PhiToAllocaMap, Visited, Worklist, LBI, assertsOK, F0, hist>>

EmptyMap == <<>>

Inputs == Scenarios \cup GenInputs \cup GenInputs2

\* The dominator tree of each input's graph.
DTOf == [succs \in {f.succs : f \in Inputs} |-> MakeDT(succs)]

Init ==
  /\ F \in Inputs
  /\ DT = DTOf[F.succs]
  /\ pc = "scan"
  /\ callNo = 1
  /\ Allocas = <<>>
  /\ AllocaNum = 0
  /\ AllocaLookup = EmptyMap
  /\ NewPhiNodes = EmptyMap
  /\ PhiToAllocaMap = EmptyMap
  /\ Visited = {}
  /\ Worklist = <<>>
  /\ LBI = EmptyMap
  /\ assertsOK = TRUE
  /\ F0 = F
  /\ hist = [ev |-> {}, promoted |-> {}, edges |-> <<>>, bodies |-> <<>>, F1 |-> F,
             placed |-> {}, simp |-> EmptyMap, incs |-> EmptyMap,
             input |-> <<>>, seen |-> <<>>]

(***************************************************************************)
(* promoteMemoryToRegister: one iteration of its loop.                     *)
(***************************************************************************)
PromotableAllocas(G) ==
  SelectSeq(SortedSeq(G.allocas), LAMBDA c : isAllocaPromotable(G, c))

\* Where promoteMemoryToRegister stands once PromoteMemToReg has returned.
AfterPromoteStop == "done"

\* while (true), line 895: the promotable allocas are collected again
AfterPromote == "scan"

Scan ==
  /\ pc = "scan"
  /\ LET A == PromotableAllocas(F)
     IN /\ Allocas' = A
        /\ pc' = IF A = <<>> THEN "done" ELSE "analyze"
        /\ hist' = [hist EXCEPT !.promoted = @ \cup {A[k] : k \in 1..Len(A)},
                                !.input = A, !.seen = <<>>]
  /\ AllocaNum' = 0
  /\ AllocaLookup' = EmptyMap
  /\ NewPhiNodes' = EmptyMap
  /\ PhiToAllocaMap' = EmptyMap
  /\ Visited' = {}
  /\ Worklist' = <<>>
  /\ LBI' = EmptyMap
  /\ UNCHANGED <<F, DT, callNo, assertsOK, F0>>

\* A second call of promoteMemoryToRegister on the function the first left.
CallAgain ==
  /\ pc = "done"
  /\ callNo = 1
  /\ callNo' = 2
  /\ pc' = "scan"
  /\ hist' = [hist EXCEPT !.F1 = F]
  /\ UNCHANGED <<F, DT, Allocas, AllocaNum, AllocaLookup, NewPhiNodes, PhiToAllocaMap,
                 Visited, Worklist, LBI, assertsOK, F0>>

(***************************************************************************)
(* PromoteMem2Reg::run, the loop of lines 459-533: one iteration.          *)
(***************************************************************************)
\* RemoveFromAllocasList: the last cell takes the slot and the index steps
\* back (from 0 the unsigned index wraps; -1 stands for the wrapped value,
\* which the loop's ++AllocaNum brings back to 0).
RemoveFromAllocasListNoSwap(as, idx) ==
  [Allocas |-> SubSeq(as, 1, Len(as) - 1), AllocaIdx |-> idx - 1]

RemoveFromAllocasList(as, idx) ==
  [Allocas |-> SubSeq([as EXCEPT ![idx + 1] = as[Len(as)]], 1, Len(as) - 1),
   AllocaIdx |-> idx - 1]

\* The general path of one iteration, lines 498-532.
\* Lines 515-528: the blocks that get a phi, in function order.
PHIBlocksFor(G, AI, UsingBlocks, DefBlocks) ==
  SortedSeq(IDFCalculate(G.succs, DT, DefBlocks,
                         ComputeLiveInBlocks(G, AI, UsingBlocks, DefBlocks)))

GeneralPath(G, AI, UsingBlocks, DefiningBlocks) ==
  QueuePhiNodes([F |-> G, NewPhiNodes |-> NewPhiNodes,
                 PhiToAllocaMap |-> PhiToAllocaMap, Version |-> 0],
                PHIBlocksFor(G, AI, UsingBlocks,
                             {DefiningBlocks[k] : k \in 1..Len(DefiningBlocks)}),
                1, AllocaNum, AI)

\* What one iteration leaves: [F, LBI, removed, ev] and, for a cell left to
\* the general path, the UsingBlocks and DefiningBlocks it goes on with.
\* Lines 492-496, sb what promoteSingleBlockAlloca returned.
AfterSingleBlock(Info, UB, ev, sb) ==
  IF sb.ok
  THEN [F |-> sb.F, LBI |-> sb.LBI, removed |-> TRUE, ev |-> ev \cup {"sb_full"}]
  ELSE [F |-> sb.F, LBI |-> sb.LBI, removed |-> FALSE, ev |-> ev \cup {"sb_abort", "general"},
        UsingBlocks |-> UB, DefiningBlocks |-> Info.DefiningBlocks]

\* Lines 491-496, G and lbi the function and the numbering by then.
TrySingleBlock(AI, Info, G, lbi, UB, ev) ==
  IF Info.OnlyUsedInOneBlock
  THEN AfterSingleBlock(Info, UB, ev, promoteSingleBlockAlloca(G, AI, lbi))
  ELSE [F |-> G, LBI |-> lbi, removed |-> FALSE, ev |-> ev \cup {"general"},
        UsingBlocks |-> UB, DefiningBlocks |-> Info.DefiningBlocks]

\* Lines 482-496, ss what rewriteSingleStoreAlloca returned.
AfterSingleStore(AI, Info, ss) ==
  IF ss.ok
  THEN [F |-> ss.F, LBI |-> ss.LBI, removed |-> TRUE, ev |-> {"ss_full"}]
  ELSE TrySingleBlock(AI, Info, ss.F, ss.LBI, ss.UsingBlocks, {"ss_partial"})

\* Lines 481-496, Info what AnalyzeAlloca found.
AfterAnalyze(AI, Info) ==
  IF Len(Info.DefiningBlocks) = 1
  THEN AfterSingleStore(AI, Info, rewriteSingleStoreAlloca(F, AI, Info, LBI, DT))
  ELSE TrySingleBlock(AI, Info, F, LBI, Info.UsingBlocks, {})

AnalyzeOne(AI) ==
  IF Users(F, AI) = <<>>
  THEN [F |-> EraseAlloca(F, AI), LBI |-> LBI, removed |-> TRUE, ev |-> {"unused"}]
  ELSE AfterAnalyze(AI, AnalyzeAlloca(F, AI))

Analyze ==
  /\ pc = "analyze"
  /\ AllocaNum # Len(Allocas)
  /\ \E AI \in {Allocas[AllocaNum + 1]} : \E r \in {AnalyzeOne(AI)} :
       /\ LBI' = r.LBI
       /\ assertsOK' = (assertsOK /\ isAllocaPromotable(F, AI))
       /\ IF r.removed
          THEN /\ hist' = [hist EXCEPT !.ev = @ \cup {<<AI, e>> : e \in r.ev},
                                       !.seen = Append(@, AI)]
               /\ F' = r.F
               /\ Allocas' = RemoveFromAllocasList(Allocas, AllocaNum).Allocas
               /\ AllocaNum' = RemoveFromAllocasList(Allocas, AllocaNum).AllocaIdx + 1
               /\ UNCHANGED <<AllocaLookup, NewPhiNodes, PhiToAllocaMap>>
          ELSE \E q \in {GeneralPath(r.F, AI, r.UsingBlocks, r.DefiningBlocks)} :
               /\ hist' = [hist EXCEPT
                             !.ev = @ \cup {<<AI, e>> : e \in r.ev},
                             !.seen = Append(@, AI),
                             !.placed = @ \cup {<<q.NewPhiNodes[x], x[1] + 1, AI>> :
                                                  x \in DOMAIN q.NewPhiNodes \ DOMAIN NewPhiNodes}]
               /\ F' = q.F
               /\ NewPhiNodes' = q.NewPhiNodes
               /\ PhiToAllocaMap' = q.PhiToAllocaMap
               /\ AllocaLookup' = AllocaLookup @@ (AI :> AllocaNum)
               /\ AllocaNum' = AllocaNum + 1
               /\ UNCHANGED Allocas
  /\ UNCHANGED <<DT, pc, callNo, Visited, Worklist, F0>>

\* Lines 535-550: the loop is over.
AnalyzeDone ==
  /\ pc = "analyze"
  /\ AllocaNum = Len(Allocas)
  /\ IF Allocas = <<>>
     THEN /\ pc' = AfterPromote
          /\ UNCHANGED <<LBI, Worklist, hist>>
     ELSE /\ pc' = "rename"
          /\ LBI' = EmptyMap
          /\ hist' = [hist EXCEPT !.edges = <<>>, !.bodies = <<>>]
          /\ Worklist' = << [BB |-> Entry, Pred |-> 0,
                             Vals |-> [k \in 1..Len(Allocas) |-> Undef]] >>
  /\ UNCHANGED <<F, DT, callNo, Allocas, AllocaNum, AllocaLookup, NewPhiNodes,
                 PhiToAllocaMap, Visited, assertsOK, F0>>

(***************************************************************************)
(* The do-while loop of lines 551-559: one RenamePass call.                *)
(***************************************************************************)
Rename ==
  /\ pc = "rename"
  /\ \E RPD \in {Worklist[Len(Worklist)]} :
     \E rs \in {RenamePass([F |-> F, BB |-> RPD.BB, Pred |-> RPD.Pred, Vals |-> RPD.Vals,
                            Visited |-> Visited,
                            Worklist |-> SubSeq(Worklist, 1, Len(Worklist) - 1),
                            P2A |-> PhiToAllocaMap, ok |-> TRUE,
                            edges |-> hist.edges, bodies |-> hist.bodies],
                           AllocaLookup)} :
        /\ F' = rs.F
        /\ Worklist' = rs.Worklist
        /\ PhiToAllocaMap' = rs.P2A
        /\ assertsOK' = (assertsOK /\ rs.ok)
        /\ hist' = [hist EXCEPT !.edges = rs.edges, !.bodies = rs.bodies]
        /\ Visited' = IF rs.Worklist = <<>> THEN {} ELSE rs.Visited
        /\ pc' = IF rs.Worklist = <<>> THEN "erase" ELSE "rename"
  /\ UNCHANGED <<DT, callNo, Allocas, AllocaNum, AllocaLookup, NewPhiNodes, LBI, F0>>

(***************************************************************************)
(* Cleanup, lines 561-662.                                                 *)
(***************************************************************************)
Erase ==
  /\ pc = "erase"
  /\ F' = EraseAllocas(F, Allocas, 1)
  /\ pc' = "simplify"
  /\ UNCHANGED <<DT, callNo, Allocas, AllocaNum, AllocaLookup, NewPhiNodes,
                 PhiToAllocaMap, Visited, Worklist, LBI, assertsOK, F0, hist>>

\* One round of the while loop of lines 576-599.
Simplify ==
  /\ pc = "simplify"
  /\ \E rev \in BOOLEAN :
       \E st \in {SimplifyRound([F |-> F, NewPhiNodes |-> NewPhiNodes, Elim |-> FALSE,
                                  simp |-> hist.simp, incs |-> hist.incs],
                                 RegistryOrder(NewPhiNodes, rev), 1, DT)} :
          /\ F' = st.F
          /\ NewPhiNodes' = st.NewPhiNodes
          /\ hist' = [hist EXCEPT !.simp = st.simp, !.incs = st.incs]
          /\ pc' = IF st.Elim THEN "simplify" ELSE "fill"
  /\ UNCHANGED <<DT, callNo, Allocas, AllocaNum, AllocaLookup, PhiToAllocaMap,
                 Visited, Worklist, LBI, assertsOK, F0>>

\* Lines 606-662, and the return to the driver's loop.
Fill ==
  /\ pc = "fill"
  /\ \E st \in {PoisonFill([F |-> F, ok |-> TRUE], NewPhiNodes,
                            RegistryOrder(NewPhiNodes, FALSE), 1)} :
        /\ F' = st.F
        /\ assertsOK' = (assertsOK /\ st.ok)
  /\ NewPhiNodes' = EmptyMap
  /\ pc' = AfterPromote
  /\ UNCHANGED <<DT, callNo, Allocas, AllocaNum, AllocaLookup, PhiToAllocaMap,
                 Visited, Worklist, LBI, F0, hist>>

Next ==
  \/ Scan
  \/ CallAgain
  \/ Analyze
  \/ AnalyzeDone
  \/ Rename
  \/ Erase
  \/ Simplify
  \/ Fill

Spec == Init /\ [][Next]_vars

\* The pass is sequential code on one thread: whenever it has a next step it
\* takes it, which is weak fairness of every step. WF_vars(A) is
\* []<>(~ENABLED <<A>>_vars) \/ []<><<A>>_vars; for the steps that run the
\* rewriting loops it is written out with the step's guard, the condition
\* under which the step is possible (each of them changes the state: Analyze
\* moves AllocaNum or shortens Allocas, Rename takes an entry off the
\* worklist, Simplify and Fill change the function or move on).
SpecFair ==
  /\ Spec
  /\ WF_vars(Scan)
  /\ WF_vars(CallAgain)
  /\ WF_vars(AnalyzeDone)
  /\ WF_vars(Erase)
  /\ ([]<>(~(pc = "analyze" /\ AllocaNum # Len(Allocas))) \/ []<><<Analyze>>_vars)
  /\ ([]<>(pc # "rename") \/ []<><<Rename>>_vars)
  /\ ([]<>(pc # "simplify") \/ []<><<Simplify>>_vars)
  /\ ([]<>(pc # "fill") \/ []<><<Fill>>_vars)

(***************************************************************************)
(* Properties.                                                             *)
(***************************************************************************)
\* PromoteMem2Reg::run has returned to promoteMemoryToRegister.
Returned == pc \in {"scan", "done"}

\* The phis the pass placed that are still in the function.
LeftPhis == {x \in hist.placed : HasInst(F, x[1])}

UnreachableBlocks(G) == BlocksOf(G) \ Reach(G.succs)

\* Cell c is accessed in block b of G.
AccessedIn(G, c, b) == \E k \in 1..Len(G.body[b]) : InstUses(G.body[b][k], Addr(c))

\* C1: when run() returns, none of the cells handed to it is in the function
\* and no instruction, in a reachable or an unreachable block, is a load
\* from or a store to one of them.
C1_NoAccessRemains ==
  Returned =>
    \A c \in hist.promoted :
      /\ c \notin F.allocas
      /\ \A b \in BlocksOf(F) : \A k \in 1..Len(F.body[b]) :
           /\ ~IsLoadOf(F.body[b][k], c)
           /\ ~IsStoreTo(F.body[b][k], c)

\* a cell that took the general path and was accessed in an unreachable block
C1_Witness ==
  /\ pc = "done"
  /\ \E c \in hist.promoted :
       /\ <<c, "general">> \in hist.ev
       /\ \E b \in UnreachableBlocks(F0) : AccessedIn(F0, c, b)
       /\ \E b \in Reach(F0.succs) : AccessedIn(F0, c, b)

\* C2: when run() returns, every phi the pass placed and left has, for each
\* block p, as many entries for p as p has successor slots targeting the
\* phi's block, so as many entries as its block has predecessor edges,
\* predecessors not reachable from entry included.
C2_PhiEntriesMatchPredEdges ==
  Returned =>
    \A x \in LeftPhis :
      LET PN == GetInst(F, x[1])
          BB == BlockOf(F, x[1])
      IN /\ PN.op = "phi"
         /\ BB = x[2]
         /\ Len(PN.inc) = PredSize(F.succs, BB)
         /\ \A p \in BlocksOf(F) :
              Cardinality({j \in 1..Len(PN.inc) : PN.inc[j].b = p}) = CountEdges(F.succs, p, BB)

\* a phi left in a block with a doubled edge and an unreachable predecessor
C2_Witness ==
  /\ pc = "done"
  /\ \E x \in LeftPhis :
       /\ \E p \in UnreachableBlocks(F) : CountEdges(F.succs, p, x[2]) > 0
       /\ \E p \in Reach(F.succs) : CountEdges(F.succs, p, x[2]) = 2

\* The definition of instruction d dominates the k-th instruction of block b.
DefDominatesAt(G, dt, d, b, k) ==
  /\ HasInst(G, d)
  /\ LET db == BlockOf(G, d)
     IN IF db = b THEN PosOf(G, d) < k
        ELSE db \in dt.reach /\ <<db, b>> \in dt.dom

\* The definition of the instruction value v dominates the end of block p.
DefDominatesEnd(G, dt, v, p) ==
  v.k = "inst" =>
    /\ HasInst(G, v.n)
    /\ LET db == BlockOf(G, v.n)
       IN db = p \/ (db \in dt.reach /\ <<db, p>> \in dt.dom)

\* C3: after the pass, in the blocks reachable from entry the definition of
\* every instruction operand dominates its use, a phi operand being used at
\* the end of its predecessor; so does every value the pass substituted.
C3_DefsDominateUses ==
  pc = "done" =>
    \A b \in DT.reach :
      /\ DefDominatesEnd(F, DT, F.tval[b], b)
      /\ \A k \in 1..Len(F.body[b]) :
           LET U == F.body[b][k]
           IN /\ U.val.k = "inst" => DefDominatesAt(F, DT, U.val.n, b, k)
              /\ U.ptr.k = "inst" => DefDominatesAt(F, DT, U.ptr.n, b, k)
              /\ \A j \in 1..Len(U.inc) :
                   U.inc[j].b \in DT.reach => DefDominatesEnd(F, DT, U.inc[j].v, U.inc[j].b)

\* a phi left by the pass that merges a stored instruction value and is used
\* where a load was
C3_Witness ==
  /\ pc = "done"
  /\ \E x \in LeftPhis :
       /\ x[2] \in DT.reach
       /\ \E j \in 1..Len(GetInst(F, x[1]).inc) :
            LET e == GetInst(F, x[1]).inc[j]
            IN e.v.k = "inst" /\ e.v.n > 0 /\ e.b \in DT.reach
       /\ \E b \in DT.reach : \E k \in 1..Len(F.body[b]) :
            /\ F.body[b][k].val = InstV(x[1])
            /\ F.body[b][k].op = "op"

\* The values now in the places where G0 used the result of instruction L.
NowAtUsesOf(G0, G, L) ==
  {G.tval[b] : b \in {x \in BlocksOf(G0) : G0.tval[x] = InstV(L)}}
    \cup {GetInst(G, i).val :
            i \in {x \in {AllInsts(G0)[k].id : k \in 1..Len(AllInsts(G0))} :
                     HasInst(G, x) /\ GetInst(G0, x).val = InstV(L)}}

\* The paths run() tried for cell c.
PathsOf(c) == {e \in {"unused", "ss_full", "ss_partial", "sb_full", "sb_abort", "general"} :
                 <<c, e>> \in hist.ev}

\* G has one block and its accesses to cell c are a load L and, after it, a
\* store S, in that order.
LoadThenStore(G, c, L, S) ==
  /\ Len(G.succs) = 1
  /\ HasInst(G, L) /\ HasInst(G, S)
  /\ IsLoadOf(GetInst(G, L), c)
  /\ IsStoreTo(GetInst(G, S), c)
  /\ PosOf(G, L) < PosOf(G, S)
  /\ \A k \in 1..Len(G.body[1]) :
       InstUses(G.body[1][k], Addr(c)) => G.body[1][k].id \in {L, S}
  /\ NowAtUsesOf(G, G, L) # {}

\* C4 as stated: the load is followed by a store of a constant; the
\* single-block path aborts, the general path handles the cell and the uses
\* of the load hold undef.
C4_AsStated ==
  pc = "done" =>
    \A c \in hist.promoted : \A L, S \in 1..(2 * MaxItems) :
      (LoadThenStore(F0, c, L, S) /\ GetInst(F0, S).val.k = "const") =>
        /\ "sb_abort" \in PathsOf(c)
        /\ "general" \in PathsOf(c)
        /\ NowAtUsesOf(F0, F, L) = {Undef}

\* C4: in a one-block function that loads a cell and then stores to it, with
\* no other access: if the stored value is a constant the single-store path
\* alone handles the cell and the uses of the load hold the constant; if it
\* is the result of an instruction the single-store path leaves the load,
\* the single-block path aborts, the general path handles the cell and the
\* uses of the load hold undef.  Either way load, store and cell are gone.
C4_LoadBeforeOnlyStore ==
  pc = "done" =>
    \A c \in hist.promoted : \A L, S \in 1..(2 * MaxItems) :
      LoadThenStore(F0, c, L, S) =>
        /\ ~HasInst(F, L) /\ ~HasInst(F, S) /\ c \notin F.allocas
        /\ IF GetInst(F0, S).val.k = "const"
           THEN /\ PathsOf(c) = {"ss_full"}
                /\ NowAtUsesOf(F0, F, L) = {GetInst(F0, S).val}
           ELSE /\ PathsOf(c) = {"ss_partial", "sb_abort", "general"}
                /\ NowAtUsesOf(F0, F, L) = {Undef}

\* v = load cell; store 7, cell; return v has been handled and returns 7
C4_Witness ==
  /\ pc = "done"
  /\ LoadThenStore(F0, 1, 1, 2)
  /\ GetInst(F0, 2).val = Const(7)
  /\ F0.tval[1] = InstV(1)
  /\ F.tval[1] = Const(7)

\* L is a load of cell c in a block of G not reachable from entry.
UnreachableLoad(G, c, L) ==
  /\ HasInst(G, L)
  /\ IsLoadOf(GetInst(G, L), c)
  /\ BlockOf(G, L) \in UnreachableBlocks(G)

InstIds(G) == {AllInsts(G)[k].id : k \in 1..Len(AllInsts(G))}

SlotsTo(G, p, b) == {k \in 1..Len(G.succs[p]) : G.succs[p][k] = b}

\* The blocks with a successor slot targeting b.
PredBlocks(G, b) == {p \in BlocksOf(G) : SlotsTo(G, p, b) # {}}

\* The stores to cell c in block b of G, in order.
StoresIn(G, c, b) == SelectSeq(G.body[b], LAMBDA I : IsStoreTo(I, c))

\* What stands for value v of the input after the pass: v itself, or, if v
\* was the result of an instruction the pass erased, what now stands where v
\* was used.
ValueNow(v) ==
  IF v.k = "inst" /\ ~HasInst(F, v.n) THEN NowAtUsesOf(F0, F, v.n) ELSE {v}

\* Block B of G stores to cell c and has two successor slots, both
\* targeting S, and S reads c before any store of its own.
SwitchIntoLoad(G, c, B, S) ==
  /\ B # S
  /\ Len(G.succs[B]) = 2
  /\ Cardinality(SlotsTo(G, B, S)) = 2
  /\ StoresIn(G, c, B) # <<>>
  /\ \E k \in 1..Len(G.body[S]) :
       /\ IsLoadOf(G.body[S][k], c)
       /\ \A j \in 1..(k - 1) : ~IsStoreTo(G.body[S][j], c)

\* The entries of the phi with id i that come from block p.
EntriesFrom(G, i, p) ==
  SelectSeq(GetInst(G, i).inc, LAMBDA e : e.b = p)

\* C6 as stated: after the pass S holds a phi for the cell that lists B
\* twice.
C6_AsStated ==
  pc = "done" =>
    \A c \in hist.promoted : \A B, S \in BlocksOf(F0) :
      SwitchIntoLoad(F0, c, B, S) =>
        \E x \in LeftPhis :
          /\ x[2] = S
          /\ x[3] = c
          /\ Len(EntriesFrom(F, x[1], B)) = 2

\* C6: B stores x to a promoted cell and both slots of its switch target S,
\* which loads the cell.  A phi the pass leaves in S for the cell lists B
\* twice, once per edge, each time with what stands for x; and when B is
\* reachable and the only predecessor of S there is no such phi: the loads
\* of S that no store of S precedes are replaced by what stands for x.
C6_SwitchWithDuplicateTargets ==
  pc = "done" =>
    \A c \in hist.promoted : \A B, S \in BlocksOf(F0) :
      (SwitchIntoLoad(F0, c, B, S) /\ B \in DT.reach) =>
        LET st == StoresIn(F0, c, B)
            x == st[Len(st)].val
        IN /\ \A p \in LeftPhis :
                (p[2] = S /\ p[3] = c) =>
                  /\ Len(EntriesFrom(F, p[1], B)) = 2
                  /\ \A j \in 1..2 : EntriesFrom(F, p[1], B)[j].v \in ValueNow(x)
           /\ PredBlocks(F0, S) = {B} =>
                /\ ~\E p \in LeftPhis : p[2] = S /\ p[3] = c
                /\ \A k \in 1..Len(F0.body[S]) :
                     (/\ IsLoadOf(F0.body[S][k], c)
                      /\ \A j \in 1..(k - 1) : ~IsStoreTo(F0.body[S][j], c)) =>
                       /\ ~HasInst(F, F0.body[S][k].id)
                       /\ NowAtUsesOf(F0, F, F0.body[S][k].id) \subseteq ValueNow(x)

\* a phi left in S that lists the storing block B twice, S having other
\* predecessors
C6_Witness ==
  /\ pc = "done"
  /\ \E c \in hist.promoted : \E B, S \in BlocksOf(F0) :
       /\ SwitchIntoLoad(F0, c, B, S)
       /\ B \in DT.reach
       /\ \E p \in LeftPhis :
            /\ p[2] = S
            /\ p[3] = c
            /\ Len(EntriesFrom(F, p[1], B)) = 2
            /\ EntriesFrom(F, p[1], B)[1].v.k = "inst"

\* The immediate dominator of a block b # Entry reachable from entry.
IDom(dt, b) ==
  LET SD == {d \in dt.reach : d # b /\ <<d, b>> \in dt.dom}
  IN CHOOSE d \in SD : \A e \in SD : <<e, d>> \in dt.dom

\* What an erased phi was replaced with, followed to a value still there.
RECURSIVE Resolve(_)
Resolve(v) ==
  IF v.k = "inst" /\ v.n \in DOMAIN hist.simp THEN Resolve(hist.simp[v.n]) ELSE v

\* The values that stand for what cell c holds at the end of block P,
\* reachable from entry: the value of the last store to c in P; failing
\* that, what c holds on entry to P: the phi placed in P for c (or what
\* replaced it), else undef in the entry block, else what c holds at the end
\* of P's immediate dominator.
RECURSIVE HeldAtEnd(_, _)
HeldAtEnd(P, c) ==
  LET st == StoresIn(F0, c, P)
      ph == {x \in hist.placed : x[2] = P /\ x[3] = c}
  IN IF st # <<>> THEN ValueNow(st[Len(st)].val)
     ELSE IF ph # {} THEN {Resolve(InstV(x[1])) : x \in ph}
     ELSE IF P = Entry THEN {Undef}
     ELSE HeldAtEnd(IDom(DT, P), c)

\* The entries of phi i as a set.
EntrySet(G, i) == {GetInst(G, i).inc[j] : j \in 1..Len(GetInst(G, i).inc)}

\* C7: every entry of a phi the pass leaves for cell c, for a predecessor P
\* reachable from entry, is the value c holds at the end of P.  The diamond
\* whose arms store 1 and 2 ends with one phi [1, T], [2, F] at the join,
\* returned in place of the load; the while loop with one phi in the header,
\* [initial, preheader], [updated, latch], used in place of the load.
C7_PhiEntriesAreValuesAtPredEnds ==
  pc = "done" =>
    /\ \A x \in LeftPhis : \A j \in 1..Len(GetInst(F, x[1]).inc) :
         LET e == GetInst(F, x[1]).inc[j]
         IN e.b \in DT.reach => e.v \in HeldAtEnd(e.b, x[3])
    /\ F0 \in {S2(TRUE), S2(FALSE)} =>
         /\ Cardinality(LeftPhis) = 1
         /\ \A x \in LeftPhis :
              /\ x[2] = 4
              /\ GetInst(F, x[1]).inc = << [v |-> Const(1), b |-> 2], [v |-> Const(2), b |-> 3] >>
              /\ F.body[4] = <<GetInst(F, x[1])>>
              /\ F.tval[4] = InstV(x[1])
    /\ F0 \in {S3(TRUE), S3(FALSE)} =>
         /\ Cardinality(LeftPhis) = 1
         /\ \A x \in LeftPhis :
              /\ x[2] = 2
              /\ EntrySet(F, x[1]) = { [v |-> Const(1), b |-> 1], [v |-> InstV(3), b |-> 3] }
              /\ Len(GetInst(F, x[1]).inc) = 2
              /\ F.body[2] = <<GetInst(F, x[1])>>
              /\ F.body[3] = <<Op(3, InstV(x[1]))>>

\* a phi left in a block one of whose reachable predecessors does not store
\* to the cell and holds no phi for it, and another stores the result of an
\* instruction
C7_Witness ==
  /\ pc = "done"
  /\ \E x \in LeftPhis :
       /\ \E P \in PredBlocks(F, x[2]) \cap DT.reach :
            /\ StoresIn(F0, x[3], P) = <<>>
            /\ ~\E y \in hist.placed : y[2] = P /\ y[3] = x[3]
            /\ P # Entry
       /\ \E P \in PredBlocks(F, x[2]) \cap DT.reach :
            /\ StoresIn(F0, x[3], P) # <<>>
            /\ EntriesFrom(F, x[1], P)[1].v.k = "inst"

\* The instructions of block b of G that are no load, store or phi, in
\* order, operands aside.
OtherInsts(G, b) ==
  LET os == SelectSeq(G.body[b], LAMBDA I : I.op \notin {"load", "store", "phi"})
  IN [k \in 1..Len(os) |-> os[k].id]

\* C8: the pass leaves the control-flow graph as it was: the blocks, the
\* ordered successor slots of every terminator and so every edge; and only
\* allocas, loads, stores and phis are added or removed.
C8_CFGUnchanged ==
  /\ BlocksOf(F) = BlocksOf(F0)
  /\ Len(F.body) = Len(F0.body)
  /\ F.succs = F0.succs
  /\ DOMAIN F.tval = DOMAIN F0.tval
  /\ \A b \in BlocksOf(F0) :
       /\ OtherInsts(F, b) = OtherInsts(F0, b)
       /\ PredBlocks(F, b) = PredBlocks(F0, b)
       /\ \A k \in 1..Len(F.body[b]) :
            F.body[b][k].op \in {"load", "store"} =>
              \E j \in 1..Len(F0.body[b]) :
                /\ F0.body[b][j].id = F.body[b][k].id
                /\ F0.body[b][j].op = F.body[b][k].op
  /\ F.allocas \subseteq F0.allocas

\* the pass is over a function with a loop and has erased accesses, left a
\* phi and kept an instruction of the input
C8_Witness ==
  /\ pc = "done"
  /\ LeftPhis # {}
  /\ Len(AllInsts(F)) < Len(AllInsts(F0))
  /\ \E b \in BlocksOf(F) : OtherInsts(F, b) # <<>>
  /\ \E b \in BlocksOf(F) : \E p \in BlocksOf(F) \ {Entry} :
       b <= p /\ b \in SuccSet(F.succs, p)

\* C9: a second call of promoteMemoryToRegister on the function the first
\* call left finds no promotable alloca, never enters run() and leaves the
\* function as the first call left it.
C9_SecondRunChangesNothing ==
  callNo = 2 =>
    /\ pc \in {"scan", "done"}
    /\ Allocas = <<>>
    /\ PromotableAllocas(F) = <<>>
    /\ F = hist.F1

\* the second call has returned on a function the first call changed in two
\* rounds, the second for a cell that only the first made promotable
C9_Witness ==
  /\ callNo = 2
  /\ pc = "done"
  /\ F # F0
  /\ \E c \in hist.promoted : ~isAllocaPromotable(F0, c)

\* The definitions of cell c in G that reach the start of each block, a
\* store named by its id and, if first = {0}, the cell's uninitialised state
\* on entry to the function by 0: the least solution of the reaching
\* definitions equations, from the assignment in.
RECURSIVE ReachingIn(_, _, _, _)
ReachingIn(G, c, first, in) ==
  LET out(p) == IF StoresIn(G, c, p) # <<>>
                THEN {StoresIn(G, c, p)[Len(StoresIn(G, c, p))].id}
                ELSE in[p]
      nxt == [b \in BlocksOf(G) |->
                (IF b = Entry THEN first ELSE {})
                  \cup UNION {out(p) : p \in PredBlocks(G, b)}]
  IN IF nxt = in THEN in ELSE ReachingIn(G, c, first, nxt)

\* The definitions of c that reach the load L of G.
ReachingLoad(G, c, first, L) ==
  LET b == BlockOf(G, L)
      before == SelectSeq(SubSeq(G.body[b], 1, PosOf(G, L) - 1), LAMBDA I : IsStoreTo(I, c))
  IN IF before # <<>> THEN {before[Len(before)].id}
     ELSE ReachingIn(G, c, first, [x \in BlocksOf(G) |-> {}])[b]

LoadsOf(G, c) == {i \in InstIds(G) : IsLoadOf(GetInst(G, i), c)}

\* C10 as stated: a promoted cell each of whose loads is reached by exactly
\* one store has no phi left.
C10_AsStated ==
  pc = "done" =>
    \A c \in hist.promoted :
      (\A L \in LoadsOf(F0, c) : Cardinality(ReachingLoad(F0, c, {}, L)) = 1) =>
        ~\E x \in LeftPhis : x[3] = c

\* C10: a promoted cell each of whose loads is reached by exactly one
\* definition, the uninitialised state of the cell on entry to the function
\* counting as one, has no phi left.
C10_OneReachingDefinitionNoPhi ==
  pc = "done" =>
    \A c \in hist.promoted :
      (\A L \in LoadsOf(F0, c) : Cardinality(ReachingLoad(F0, c, {0}, L)) = 1) =>
        ~\E x \in LeftPhis : x[3] = c

\* a cell stored to in two blocks and loaded, each load reached by one
\* definition, promoted on the general path: no phi is left
C10_Witness ==
  /\ pc = "done"
  /\ \E c \in hist.promoted :
       /\ "general" \in PathsOf(c)
       /\ LoadsOf(F0, c) # {}
       /\ \A L \in LoadsOf(F0, c) : Cardinality(ReachingLoad(F0, c, {0}, L)) = 1
       /\ \E L \in LoadsOf(F0, c) : BlockOf(F0, L) \in DT.reach \ {Entry}
       /\ Cardinality({b \in BlocksOf(F0) : StoresIn(F0, c, b) # <<>>}) >= 2
       /\ ~\E x \in LeftPhis : x[3] = c

\* How many times x occurs in the sequence s.
TimesIn(s, x) == Cardinality({k \in 1..Len(s) : s[k] = x})

\* The renaming walk of the current run is over.
WalkOver == pc \in {"erase", "simplify", "fill"}

\* The pairs <<Pred, B>> the walk has to pass: the entry block, entered from
\* no block, and every B that a slot of a block Pred reachable from entry
\* targets.
WalkPairs ==
  {<<0, Entry>>} \cup {e \in Reach(F.succs) \X BlocksOf(F) : e[2] \in SuccSet(F.succs, e[1])}

\* C11: during the renaming walk no block has its body rewritten twice, no
\* block that entry does not reach has it rewritten, and the phi-population
\* step never runs twice for one pair (Pred, B); when the walk is over,
\* every block reachable from entry has had its body rewritten once and the
\* phi-population step has run once for every pair (Pred, B) with Pred
\* reachable and B a successor of Pred, B already visited or not.
C11_WalkOncePerBlockAndEdge ==
  /\ \A b \in BlocksOf(F) :
       /\ TimesIn(hist.bodies, b) <= 1
       /\ b \notin Reach(F.succs) => TimesIn(hist.bodies, b) = 0
  /\ \A k \in 1..Len(hist.edges) :
       /\ hist.edges[k] \in WalkPairs
       /\ TimesIn(hist.edges, hist.edges[k]) = 1
  /\ WalkOver =>
       /\ \A b \in Reach(F.succs) : TimesIn(hist.bodies, b) = 1
       /\ \A e \in WalkPairs : TimesIn(hist.edges, e) = 1

\* a finished walk over a graph with a block that entry does not reach and a
\* block targeted by two slots of one block, the step having run for a pair
\* whose block had been visited before
C11_Witness ==
  /\ WalkOver
  /\ UnreachableBlocks(F) # {}
  /\ \E p, b \in BlocksOf(F) : CountEdges(F.succs, p, b) = 2 /\ TimesIn(hist.edges, <<p, b>>) = 1
  /\ \E j, k \in 1..Len(hist.edges) :
       /\ j < k
       /\ hist.edges[j][2] = hist.edges[k][2]

StoreIdsOf(G, c) == {i \in InstIds(G) : IsStoreTo(GetInst(G, i), c)}

\* run() is about to examine a cell.
CellAtHand == pc = "analyze" /\ AllocaNum # Len(Allocas)

\* Every path from entry to block b passes block a; so it is for every block
\* b that entry does not reach.
OnEveryPathTo(succs, a, b) ==
  a = b \/ b \notin Closure(succs, IF a = Entry THEN {} ELSE {Entry}, a)

\* The load L of G cannot take the value of the store S: the value is an
\* instruction and L precedes S in its block or is in a block that the block
\* of S does not dominate.
MustLeave(G, S, L) ==
  /\ IsInstruction(GetInst(G, S).val)
  /\ IF BlockOf(G, L) = BlockOf(G, S) THEN PosOf(G, L) < PosOf(G, S)
     ELSE ~OnEveryPathTo(G.succs, BlockOf(G, S), BlockOf(G, L))

LoadsLeft(G, c, S) == {L \in LoadsOf(G, c) : MustLeave(G, S, L)}

\* What stands for a load that took the value SV of the store: SV, or poison
\* if SV is the result of a load of the cell that took the value itself.
SingleStoreRepl(G, c, S) ==
  IF /\ GetInst(G, S).val.k = "inst"
     /\ GetInst(G, S).val.n \in LoadsOf(G, c) \ LoadsLeft(G, c, S)
  THEN Poison ELSE GetInst(G, S).val

\* The value v, or m[i] if v is the result of an instruction i that m maps.
Mapped(m, v) == IF v.k = "inst" /\ v.n \in DOMAIN m THEN m[v.n] ELSE v

\* G with the instructions gone erased and every use of the result of an
\* instruction that m maps holding what m maps it to.
RewrittenBy(G, gone, m) ==
  [G EXCEPT
     !.body = [b \in 1..Len(@) |->
                 [k \in 1..Len(SelectSeq(@[b], LAMBDA I : I.id \notin gone)) |->
                    [SelectSeq(@[b], LAMBDA I : I.id \notin gone)[k] EXCEPT
                       !.val = Mapped(m, @),
                       !.inc = [j \in 1..Len(@) |-> [v |-> Mapped(m, @[j].v), b |-> @[j].b]]]]],
     !.tval = [b \in 1..Len(@) |-> Mapped(m, @[b])]]

Rewritten(G, gone, from, to) == RewrittenBy(G, gone, [i \in from |-> to])

\* C12: for a cell with one store S of the value SV, the single-store path
\* leaves a load exactly when SV is an instruction and the load precedes S
\* in the block of S or is in another block that the block of S does not
\* dominate; it erases every other load, whose uses then hold SV (poison
\* where SV was the result of such a load), and changes nothing else; it
\* succeeds, erasing S and the cell, iff it left no load; otherwise S and
\* the cell remain and UsingBlocks names the block of every load left, once
\* per load.
C12_SingleStorePath ==
  (CellAtHand /\ Cardinality(StoreIdsOf(F, Allocas[AllocaNum + 1])) = 1) =>
    LET c == Allocas[AllocaNum + 1]
        S == CHOOSE i \in StoreIdsOf(F, c) : TRUE
        left == LoadsLeft(F, c, S)
        ss == rewriteSingleStoreAlloca(F, c, AnalyzeAlloca(F, c), LBI, DT)
    IN /\ ss.ok = (left = {})
       /\ \A b \in BlocksOf(F) :
            TimesIn(ss.UsingBlocks, b) = Cardinality({L \in left : BlockOf(F, L) = b})
       /\ ss.F = [Rewritten(F, (LoadsOf(F, c) \ left) \cup (IF left = {} THEN {S} ELSE {}),
                            LoadsOf(F, c) \ left, SingleStoreRepl(F, c, S))
                    EXCEPT !.allocas = IF left = {} THEN @ \ {c} ELSE @]

\* the path has erased a load of a cell and left another, in a block other
\* than the store's, for the general path
C12_Witness ==
  /\ pc = "analyze"
  /\ \E c \in F.allocas :
       /\ <<c, "ss_partial">> \in hist.ev
       /\ Cardinality(StoreIdsOf(F, c)) = 1
       /\ \E L \in LoadsOf(F0, c) : ~HasInst(F, L)
       /\ \E L \in LoadsOf(F, c) : \E S \in StoreIdsOf(F, c) : BlockOf(F, L) # BlockOf(F, S)

\* The positions of the stores to c above the load L in its block.
StoresAbove(G, c, L) ==
  {k \in 1..(PosOf(G, L) - 1) : IsStoreTo(G.body[BlockOf(G, L)][k], c)}

\* The loads of c that no store to c precedes in their block.
LoadsAboveStores(G, c) == {L \in LoadsOf(G, c) : StoresAbove(G, c, L) = {}}

\* What stands for the load L of c once the loads R are rewritten: the value
\* of the nearest store above L, followed through the loads of R; undef if
\* c has no store; poison if the value is the result of L itself.
RECURSIVE NearestStored(_, _, _, _, _)
NearestStored(G, c, R, L, seen) ==
  IF StoreIdsOf(G, c) = {} THEN Undef
  ELSE
    LET top == CHOOSE k \in StoresAbove(G, c, L) : \A j \in StoresAbove(G, c, L) : j <= k
        v == G.body[BlockOf(G, L)][top].val
    IN IF v.k = "inst" /\ v.n \in R
       THEN (IF v.n \in seen \cup {L} THEN Poison
             ELSE NearestStored(G, c, R, v.n, seen \cup {L}))
       ELSE v

\* G after the loads R of c are rewritten.
LoadsRewritten(G, c, R) ==
  RewrittenBy(G, R, [L \in R |-> NearestStored(G, c, R, L, {})])

\* C13: for a cell accessed in one block only that the single-store path
\* did not finish, promoteSingleBlockAlloca replaces every load it rewrites
\* with the value of the nearest store to the cell above the load (undef if
\* the cell has no store, poison if that value is the load itself) and
\* erases the load. It returns false iff the cell has a store and some load
\* is above every store; then the cell and all its stores are still in the
\* function, the loads above every store too, and nothing but loads below a
\* store has been rewritten. When it returns true every load, every store
\* and the cell have been erased and nothing else has changed.
C13_SingleBlockPath ==
  (CellAtHand /\ Cardinality({b \in BlocksOf(F) : AccessedIn(F, Allocas[AllocaNum + 1], b)}) = 1) =>
    LET c == Allocas[AllocaNum + 1]
        one == Cardinality(StoreIdsOf(F, c)) = 1
        ss == rewriteSingleStoreAlloca(F, c, AnalyzeAlloca(F, c), LBI, DT)
    IN ~(one /\ ss.ok) =>
         LET G == IF one THEN ss.F ELSE F
             sb == promoteSingleBlockAlloca(G, c, IF one THEN ss.LBI ELSE LBI)
             bad == LoadsAboveStores(G, c)
         IN /\ sb.ok = ~(StoreIdsOf(G, c) # {} /\ bad # {})
            /\ sb.ok =>
                 sb.F = [RewrittenBy(LoadsRewritten(G, c, LoadsOf(G, c)), StoreIdsOf(G, c), <<>>)
                           EXCEPT !.allocas = @ \ {c}]
            /\ ~sb.ok =>
                 \E R \in SUBSET (LoadsOf(G, c) \ bad) : sb.F = LoadsRewritten(G, c, R)

\* the path has finished a cell whose block held two stores to it above a
\* load
C13_Witness ==
  /\ pc = "analyze"
  /\ \E c \in hist.promoted :
       /\ <<c, "sb_full">> \in hist.ev
       /\ c \notin F.allocas
       /\ \E L \in LoadsOf(F0, c) : Cardinality(StoresAbove(F0, c, L)) = 2 /\ ~HasInst(F, L)

\* The first access to c in block b of G is a load.
LoadFirst(G, c, b) ==
  \E k \in 1..Len(G.body[b]) :
    /\ IsLoadOf(G.body[b][k], c)
    /\ \A j \in 1..(k - 1) : ~IsStoreTo(G.body[b][j], c)

\* The blocks from whose top some path reaches a load of c before any store
\* to c: S, and every block without a store that has a successor in them.
RECURSIVE LiveFrom(_, _, _)
LiveFrom(G, c, S) ==
  LET N == S \cup {b \in BlocksOf(G) :
                    /\ StoresIn(G, c, b) = <<>>
                    /\ SuccSet(G.succs, b) \cap S # {}}
  IN IF N = S THEN S ELSE LiveFrom(G, c, N)

LiveInOracle(G, c) == LiveFrom(G, c, {b \in BlocksOf(G) : LoadFirst(G, c, b)})

\* C14: for a cell that the fast paths leave to the general path,
\* ComputeLiveInBlocks yields exactly the blocks from whose top some path
\* reaches a load of the cell before any store to it; a block that stores
\* and loads the cell is among them iff its first access is a load.
C14_LiveInBlocks ==
  CellAtHand =>
    LET c == Allocas[AllocaNum + 1]
        r == AnalyzeOne(c)
    IN ~r.removed =>
         LET live == ComputeLiveInBlocks(r.F, c, r.UsingBlocks,
                                         {r.DefiningBlocks[k] : k \in 1..Len(r.DefiningBlocks)})
         IN /\ live = LiveInOracle(r.F, c)
            /\ \A b \in BlocksOf(r.F) :
                 (StoresIn(r.F, c, b) # <<>> /\ LoadsOf(r.F, c) \cap
                    {r.F.body[b][k].id : k \in 1..Len(r.F.body[b])} # {}) =>
                   (b \in live <=> LoadFirst(r.F, c, b))

\* a cell left to the general path, live into a block that loads it and then
\* stores it and into a block that does not access it, and not live into
\* another block
C14_Witness ==
  /\ pc = "rename"
  /\ \E c \in F.allocas :
       /\ <<c, "general">> \in hist.ev
       /\ \E b \in LiveInOracle(F, c) : LoadFirst(F, c, b) /\ StoresIn(F, c, b) # <<>>
       /\ \E b \in LiveInOracle(F, c) : ~AccessedIn(F, c, b)
       /\ LiveInOracle(F, c) # BlocksOf(F)

\* The block that defines the instruction value v.
DefBlockOf(v) ==
  IF v.k = "addr" THEN Entry
  ELSE IF \E x \in hist.placed : x[1] = v.n
  THEN (CHOOSE x \in hist.placed : x[1] = v.n)[2]
  ELSE BlockOf(F0, v.n)

\* V dominates a phi of block b: it is no instruction, or entry does not
\* reach b, or its block is another one that every path from entry to b
\* passes.
DominatesPhiIn(V, b) ==
  \/ ~IsInstruction(V)
  \/ b \notin Reach(F0.succs)
  \/ /\ DefBlockOf(V) \in Reach(F0.succs)
     /\ DefBlockOf(V) # b
     /\ OnEveryPathTo(F0.succs, DefBlockOf(V), b)

\* What a phi PN of block b with the incoming list inc folds to, NoVal if it
\* does not fold: undef if, operands equal to PN aside, it has only undef
\* (undef or poison) operands; V if it has the single other value V and no
\* undef operand, or undef operands and V dominating the phi.
FoldsTo(PN, b, inc) ==
  LET ops == {inc[k].v : k \in 1..Len(inc)} \ {InstV(PN)}
      vals == {v \in ops : v.k \notin {"undef", "poison"}}
  IN IF vals = {} THEN Undef
     ELSE IF Cardinality(vals) # 1 THEN NoVal
     ELSE IF vals = ops \/ DominatesPhiIn(CHOOSE v \in vals : TRUE, b)
     THEN CHOOSE v \in vals : TRUE
     ELSE NoVal

\* C15: every phi the simplification loop erased was one that folds, and was
\* replaced with the value it folds to: undef for only undef operands, V for
\* a single value V without undef operands or with undef operands and V
\* dominating the phi, and never a phi with a single value V and undef
\* operands where V does not dominate it; and when the loop has ended no
\* phi left in the registry folds.
C15_SimplifyFixpoint ==
  /\ \A PN \in DOMAIN hist.simp :
       /\ hist.simp[PN] # NoVal
       /\ hist.simp[PN] =
            FoldsTo(PN, (CHOOSE x \in hist.placed : x[1] = PN)[2], hist.incs[PN])
  /\ pc = "fill" =>
       \A key \in DOMAIN NewPhiNodes :
         FoldsTo(NewPhiNodes[key], key[1] + 1, GetInst(F, NewPhiNodes[key]).inc) = NoVal

\* the loop has ended with a phi left whose single value beside undef does
\* not dominate it, after erasing a phi that had itself as an operand and
\* another phi, each replaced with its single value
C15_Witness ==
  /\ pc = "fill"
  /\ \E key \in DOMAIN NewPhiNodes :
       LET inc == GetInst(F, NewPhiNodes[key]).inc
       IN /\ \E k \in 1..Len(inc) : inc[k].v.k = "undef"
          /\ Cardinality({inc[k].v : k \in 1..Len(inc)} \ {Undef}) = 1
  /\ \E PN, PM \in DOMAIN hist.simp :
       /\ PN # PM
       /\ hist.simp[PN] # Undef
       /\ hist.simp[PM] # Undef
       /\ \E k \in 1..Len(hist.incs[PN]) : hist.incs[PN][k].v = InstV(PN)

(***************************************************************************)
(* C16                                                                     *)
(***************************************************************************)
HasCycle(succs) == \E b \in 1..Len(succs) : b \in Closure(succs, SuccSet(succs, b), 0)

HasDuplicateEdge(succs) ==
  \E p \in 1..Len(succs) : \E b \in 1..Len(succs) : CountEdges(succs, p, b) > 1

\* C16: every call of promoteMemoryToRegister returns: from the moment the
\* driver collects the promotable allocas, the analysis loop, the renaming
\* worklist, the rounds of the trivial-phi loop and the driver's own loop
\* all come to an end; the renaming worklist is empty when the walk is
\* left, and whenever the driver is back at the head of its loop none of
\* the allocas it collected so far is still in the function.
C16_Terminates ==
  /\ (pc = "scan") ~> (pc = "done")
  /\ [](pc \in {"erase", "simplify", "fill"} => Worklist = <<>>)
  /\ [](pc \in {"scan", "done"} => hist.promoted \cap F.allocas = {})

\* The first call has returned on a graph with a loop and a doubled edge,
\* after a cell went through phi placement and renaming and the trivial-phi
\* loop erased a phi.
C16_Witness ==
  /\ pc = "done"
  /\ callNo = 1
  /\ HasCycle(F.succs)
  /\ HasDuplicateEdge(F.succs)
  /\ \E c \in Cells : <<c, "general">> \in hist.ev
  /\ DOMAIN hist.simp # {}

(***************************************************************************)
(* C17                                                                     *)
(***************************************************************************)
\* The execution paths of up to n blocks from the entry block.
RECURSIVE PathsUpTo(_, _)
PathsUpTo(succs, n) ==
  IF n = 1 THEN {<<Entry>>}
  ELSE LET P == PathsUpTo(succs, n - 1)
       IN P \cup UNION {{Append(p, t) : t \in SuccSet(succs, p[Len(p)])} : p \in P}

\* The result of instruction i when it runs in the j-th block of a path.
DynV(i, j) == [k |-> "dyn", n |-> i * 100 + j]

\* What operand v holds, given the results env of the instructions run so far.
RunVal(env, v) ==
  IF v.k # "inst" THEN v
  ELSE IF v.n \in DOMAIN env THEN env[v.n] ELSE Poison

\* The entry a phi takes when its block is entered from block p.
PhiEntryFrom(I, p) ==
  IF \E k \in 1..Len(I.inc) : I.inc[k].b = p
  THEN I.inc[CHOOSE k \in 1..Len(I.inc) :
               I.inc[k].b = p /\ \A m \in 1..(k - 1) : I.inc[m].b # p].v
  ELSE Poison

\* A run is [env, mem, obs]: the results of the instructions, the contents
\* of the cells (undef until stored to), and the operand each instruction
\* other than a load, store or phi, and each terminator, was run with
\* (<<j, id>> for the instruction id, <<j, 0>> for the terminator, of the
\* j-th block of the path).
Put(m, key, v) == [x \in DOMAIN m \cup {key} |-> IF x = key THEN v ELSE m[x]]

RunInst(st, I, j, p, env0) ==
  IF I.op = "phi" THEN [st EXCEPT !.env = Put(@, I.id, RunVal(env0, PhiEntryFrom(I, p)))]
  ELSE IF I.op = "load"
  THEN [st EXCEPT !.env = Put(@, I.id, IF I.ptr.k = "addr" /\ I.ptr.n \in DOMAIN st.mem
                                       THEN st.mem[I.ptr.n]
                                       ELSE IF I.ptr.k = "addr" THEN Undef ELSE Poison)]
  ELSE IF I.op = "store"
  THEN IF I.ptr.k = "addr" THEN [st EXCEPT !.mem = Put(@, I.ptr.n, RunVal(st.env, I.val))]
       ELSE st
  ELSE [st EXCEPT !.env = Put(@, I.id, DynV(I.id, j)),
                  !.obs = IF I.val = NoVal THEN @ ELSE Put(@, <<j, I.id>>, RunVal(st.env, I.val))]

RECURSIVE RunBody(_, _, _, _, _, _)
RunBody(st, body, k, j, p, env0) ==
  IF k > Len(body) THEN st
  ELSE RunBody(RunInst(st, body[k], j, p, env0), body, k + 1, j, p, env0)

RunBlock(G, st, b, j, p) ==
  LET st1 == RunBody(st, G.body[b], 1, j, p, st.env)
  IN IF G.tval[b] = NoVal THEN st1
     ELSE [st1 EXCEPT !.obs = Put(@, <<j, 0>>, RunVal(st1.env, G.tval[b]))]

RECURSIVE RunPath(_, _, _)
RunPath(G, path, n) ==
  IF n = 0 THEN [env |-> EmptyMap, mem |-> EmptyMap, obs |-> EmptyMap]
  ELSE RunBlock(G, RunPath(G, path, n - 1), path[n], n, IF n = 1 THEN 0 ELSE path[n - 1])

\* The operands of G0 that are results of loads of promoted cells: <<id, L>>
\* for an instruction, <<0, L>> with the block for a terminator.
PromotedLoads(G0) == UNION {LoadsOf(G0, c) : c \in hist.promoted}

\* On the path, instruction id (0: the terminator) of the j-th block uses
\* the result of a load of a promoted cell in G0.
UsesPromotedLoad(G0, path, key) ==
  LET b == path[key[1]]
  IN IF key[2] = 0
     THEN G0.tval[b].k = "inst" /\ G0.tval[b].n \in PromotedLoads(G0)
     ELSE /\ GetInst(G0, key[2]).val.k = "inst"
          /\ GetInst(G0, key[2]).val.n \in PromotedLoads(G0)

\* The first call has returned.
FirstCallOver == pc = "done" /\ callNo = 1

\* C17: on every execution path from the entry block, wherever the function
\* as it was used the result of a load of a promoted cell, the function the
\* pass leaves uses, with each phi taking the entry of the edge the path
\* came by, the value the last store to the cell on the path had stored;
\* it may differ, and may be undef or poison, only where no stored value
\* had reached the load.
C17_LoadsKeepTheirValue ==
  FirstCallOver =>
    \A path \in PathsUpTo(F0.succs, MaxPath) :
      LET old == RunPath(F0, path, Len(path)).obs
          new == RunPath(F, path, Len(path)).obs
      IN \A key \in DOMAIN old :
           UsesPromotedLoad(F0, path, key) =>
             /\ key \in DOMAIN new
             /\ old[key] # Undef => new[key] = old[key]

\* The first call has returned, and on a path that goes round a loop the
\* result of a load of a promoted cell was used where the pass left the
\* result of a phi it placed, the value coming from a store on the path.
C17_Witness ==
  /\ FirstCallOver
  /\ \E path \in PathsUpTo(F0.succs, MaxPath) :
       /\ \E i \in 1..Len(path) : \E j \in 1..Len(path) : i < j /\ path[i] = path[j]
       /\ LET old == RunPath(F0, path, Len(path)).obs
          IN \E key \in DOMAIN old :
               /\ UsesPromotedLoad(F0, path, key)
               /\ old[key] # Undef
               /\ key[2] # 0
               /\ HasInst(F, key[2])
               /\ GetInst(F, key[2]).val.k = "inst"
               /\ GetInst(F, key[2]).val.n < 0

(***************************************************************************)
(* C18                                                                     *)
(***************************************************************************)
RangeOf(s) == {s[k] : k \in 1..Len(s)}

\* The loop of lines 459-533 is over.
AnalysisOver == (pc = "analyze" /\ AllocaNum = Len(Allocas)) \/ pc = "rename"

\* C18: when the analysis loop is over it has examined every cell the
\* driver collected exactly once, whichever cells RemoveFromAllocasList
\* took out on the way; and while renaming, every cell in Allocas is found
\* at the index AllocaLookup gives for it, every phi of the registry is
\* registered under, and mapped by PhiToAllocaMap to, the index of the
\* cell it was created for, and a cell a fast path removed is neither in
\* Allocas nor the cell of any phi.
C18_AllocaListAndIndices ==
  /\ AnalysisOver =>
       /\ Len(hist.seen) = Len(hist.input)
       /\ \A c \in RangeOf(hist.input) : TimesIn(hist.seen, c) = 1
  /\ pc = "rename" =>
       /\ \A k \in 1..Len(Allocas) :
            /\ Allocas[k] \in DOMAIN AllocaLookup
            /\ AllocaLookup[Allocas[k]] = k - 1
       /\ \A key \in DOMAIN NewPhiNodes :
            /\ key[2] < Len(Allocas)
            /\ NewPhiNodes[key] \in DOMAIN PhiToAllocaMap
            /\ PhiToAllocaMap[NewPhiNodes[key]] = key[2]
            /\ <<NewPhiNodes[key], key[1] + 1, Allocas[key[2] + 1]>> \in hist.placed
       /\ \A c \in RangeOf(hist.input) \ RangeOf(Allocas) :
            /\ \E e \in {"unused", "ss_full", "sb_full"} : <<c, e>> \in hist.ev
            /\ \A x \in hist.placed : x[3] # c

\* Renaming starts after the first of three cells was removed, the last
\* cell took its slot and was examined there, and phis were placed for
\* both cells left.
C18_Witness ==
  /\ pc = "rename"
  /\ hist.edges = <<>>
  /\ Len(hist.input) = 3
  /\ Len(Allocas) = 2
  /\ hist.seen = <<hist.input[1], hist.input[3], hist.input[2]>>
  /\ Allocas = <<hist.input[3], hist.input[2]>>
  /\ \A k \in 0..1 : \E key \in DOMAIN NewPhiNodes : key[2] = k

(***************************************************************************)
(* C19                                                                     *)
(***************************************************************************)
\* The phis the function held when it was handed to the pass.
OldPhis == {i \in InstIds(F0) : GetInst(F0, i).op = "phi"}

\* Phi i of G0 has one entry per predecessor edge of its block.
EntryPerEdge(G0, i) ==
  \A p \in BlocksOf(G0) :
    Cardinality({k \in 1..Len(GetInst(G0, i).inc) : GetInst(G0, i).inc[k].b = p})
      = CountEdges(G0.succs, p, BlockOf(G0, i))

\* C19: a phi the function held before the pass, with one entry per
\* predecessor edge of its block, stays in its block with the entries it
\* had, in their order: no step of the pass, the renaming walk's phi
\* population and the poison fill included, adds an entry to it. (An entry
\* that was the result of a load of a promoted cell holds what replaced the
\* load; every other entry holds the value it held.)
C19_OldPhisKeepTheirEntries ==
  \A i \in OldPhis :
    EntryPerEdge(F0, i) =>
      /\ HasInst(F, i)
      /\ BlockOf(F, i) = BlockOf(F0, i)
      /\ GetInst(F, i).op = "phi"
      /\ Len(GetInst(F, i).inc) = Len(GetInst(F0, i).inc)
      /\ \A k \in 1..Len(GetInst(F0, i).inc) :
           /\ GetInst(F, i).inc[k].b = GetInst(F0, i).inc[k].b
           /\ (GetInst(F0, i).inc[k].v.k = "inst" /\ GetInst(F0, i).inc[k].v.n \in PromotedLoads(F0))
                \/ GetInst(F, i).inc[k].v = GetInst(F0, i).inc[k].v

\* The pass has returned and left a phi of its own, with a poison entry for
\* a predecessor not reachable from entry and two entries for a doubled
\* edge, in front of a phi that was there before.
C19_Witness ==
  /\ FirstCallOver
  /\ \E i \in OldPhis : \E x \in hist.placed :
       /\ EntryPerEdge(F0, i)
       /\ HasInst(F, x[1])
       /\ x[2] = BlockOf(F0, i)
       /\ PosOf(F, x[1]) < PosOf(F, i)
       /\ \E k \in 1..Len(GetInst(F, x[1]).inc) :
            /\ GetInst(F, x[1]).inc[k].v = Poison
            /\ GetInst(F, x[1]).inc[k].b \notin Reach(F.succs)
       /\ \E p \in BlocksOf(F) : CountEdges(F.succs, p, x[2]) = 2

====
